---- MODULE Spec2Model ----
(***************************************************************************)
(* Feed-driven batch newsletter delivery: dailyRun, discovery, the         *)
(* per-post delivery queue, the sent records, the retry wrapper and the    *)
(* two email providers, modelled from src/newsletter/backend/processor.js, *)
(* src/utils/kv.js, src/utils/retry.js and src/email/*.js.                 *)
(*                                                                         *)
(* Time is kept relative: a queue's nextSendAt is stored as the number of  *)
(* minutes that separate it from Date.now() (0 when it is '' or already    *)
(* past), and Tick moves the clock.                                        *)
(***************************************************************************)
EXTENDS Integers, Sequences, FiniteSets, TLC

VARIABLES kv, feed, config, lastRun, handedTo, lastSend, retryRun, breaker,
          deadLetters, parseRun, gmailRun, inFlight

vars == <<kv, feed, config, lastRun, handedTo, lastSend, retryRun, breaker,
         deadLetters, parseRun, gmailRun, inFlight>>

\* the newsletter flow, and the two utilities of retry.js taken by themselves
flowVars == <<kv, feed, config, lastRun, handedTo, lastSend>>
utilVars == <<retryRun, breaker, deadLetters, parseRun, gmailRun, inFlight>>

---------------------------------------------------------------------------
(* Bounds of the model and constants of the program *)

MaxSubs == 3              \* size of the subscriber universe
BATCH_SIZE == 2           \* config.BATCH_SIZE (scaled down from 100)
MaxDlq == 1               \* dead-letter entries the store keeps
MAX_POSTS_PER_RUN == 1    \* config.MAX_POSTS_PER_RUN default
MaxPostsPerRun == 2       \* the largest config.MAX_POSTS_PER_RUN the environment sets
BATCH_WAIT_MINUTES == 5   \* config.BATCH_WAIT_MINUTES default
RetryWaitMinutes == 5     \* 5 * 60 * 1000 ms
TickMinutes == 5          \* the clock advances in steps of five minutes
MaxBatchRetries == 3      \* queue.batchRetryCount >= 3
SendMaxAttempts == 3      \* maxAttempts of the send's withRetry
GmailMaxAttempts == 3     \* maxAttempts of the Gmail sub-batch withRetry
GmailBccLimit == 1        \* Gmail sub-batch size (scaled down from 50, as BATCH_SIZE is)
WorkerBccLimit == 1       \* Worker Email sub-batch size (scaled down from 50)
GmailFailureThreshold == 3

\* Body applied to value, the value being computed once however often Body
\* uses it
Let(value, Body(_)) == CHOOSE result \in {Body(v) : v \in {value}} : TRUE

Min(a, b) == IF a < b THEN a ELSE b
Max(a, b) == IF a > b THEN a ELSE b

AllEmails == <<"a@x", "b@x", "c@x", "d@x", "e@x">>
Emails == {AllEmails[i] : i \in 1..Min(MaxSubs, Len(AllEmails))}
EmailIndex(e) == CHOOSE i \in 1..Len(AllEmails) : AllEmails[i] = e

---------------------------------------------------------------------------
(* JavaScript values: a number, NaN or undefined *)

Num(n) == [t |-> "num", v |-> n]
NaN == [t |-> "NaN", v |-> 0]
Undefined == [t |-> "undefined", v |-> 0]

\* a + b on numbers: anything added to undefined or NaN is NaN
JsAdd(a, b) == IF a.t = "num" /\ b.t = "num" THEN Num(a.v + b.v) ELSE NaN
\* a > 0: false for NaN and undefined
JsGtZero(a) == a.t = "num" /\ a.v > 0
\* a === 0
JsIsZero(a) == a.t = "num" /\ a.v = 0
\* a || 0 on a counter
JsOrZero(a) == IF a.t = "num" THEN a.v ELSE 0
\* a !== undefined && a !== null
JsDefined(a) == a.t # "undefined"
\* array.slice(0, n): NaN and undefined convert to 0
SliceTo(s, n) == IF n.t = "num" THEN SubSeq(s, 1, Min(n.v, Len(s))) ELSE <<>>
\* array.slice(n): NaN and undefined convert to 0
SliceFrom(s, n) == IF n.t = "num" THEN SubSeq(s, Min(n.v, Len(s)) + 1, Len(s)) ELSE s
\* A faulty variant of Slice: the slice is taken from the start of the array.
SliceFromStart(s, from, to) == SubSeq(s, 1, Min(to, Len(s)) - from)

\* array.slice(from, to) with zero-based bounds
Slice(s, from, to) == SubSeq(s, from + 1, Min(to, Len(s)))

---------------------------------------------------------------------------
(* URLs.  A URL string is the record of its parts: segs are the segments  *)
(* of the path ("/p1/" is <<"p1", "">>, "/" is <<>>), port 0 is "no port   *)
(* written", parses tells whether new URL() accepts the string.            *)

Url(scheme, port, segs) ==
    [scheme |-> scheme, host |-> "blog.example", port |-> port, segs |-> segs, parses |-> TRUE]

DefaultPort(scheme) == IF scheme = "https" THEN 443 ELSE 80

NonEmpty(s) == s # ""

\* u.host of new URL(s): the port is dropped when it is the scheme's default
ParsedPort(u) == IF u.port = DefaultPort(u.scheme) THEN 0 ELSE u.port

\* processor.js normalizeUrl: `https://${host}${path}` with // collapsed and
\* the trailing slash stripped; a string new URL() rejects is returned as is
normalizeUrl(u) ==
    IF ~u.parses THEN u
    ELSE [scheme |-> "https", host |-> u.host, port |-> ParsedPort(u),
          segs |-> SelectSeq(u.segs, NonEmpty), parses |-> TRUE]

\* s.replace(/^\/+|\/+$/g, ''): the empty segments at both ends are dropped
RECURSIVE TrimSlashes(_)
TrimSlashes(segs) ==
    IF segs = <<>> THEN <<>>
    ELSE IF Head(segs) = "" THEN TrimSlashes(Tail(segs))
    ELSE IF segs[Len(segs)] = "" THEN TrimSlashes(SubSeq(segs, 1, Len(segs) - 1))
    ELSE segs

\* processor.js postIdFromNormalizedUrl: the path without its leading and
\* trailing slashes, as the sequence of its segments; <<>> stands for the
\* falsy results '' and null (new URL() threw)
postIdFromNormalizedUrl(u) == IF ~u.parses THEN <<>> ELSE TrimSlashes(u.segs)

\* encodeURIComponent is injective and its result is never decoded: the key
\* of a sent-by-url record is the URL it encodes
SentUrlKey(normUrl) == normUrl

---------------------------------------------------------------------------
(* retry.js *)

RetryableMessages == {"ETIMEDOUT", "ECONNRESET", "ECONNREFUSED", "ENOTFOUND",
                      "NetworkError", "TimeoutError"}

RetryableStatusCodes == {408, 429, 500, 502, 503, 504, 522, 524}

\* a thrown Error: the words of its message, its status and the status of its
\* response (0 when it has none)
Err(message, status, responseStatus) ==
    [nullish |-> FALSE, message |-> message, status |-> status,
     responseStatus |-> responseStatus]

\* The values an operation throws are named by strings: the message of an
\* Error that has nothing but a message, or one of the names below.
\* "undefined" is the value of `throw undefined` or of a promise rejected
\* without a reason.
Thrown(name) ==
    CASE name = "undefined" ->
           [nullish |-> TRUE, message |-> <<>>, status |-> 0, responseStatus |-> 0]
      [] name = "connect ECONNRESET" -> Err(<<"connect", "ECONNRESET">>, 0, 0)
      [] name = "550 rejected" -> Err(<<"550", "rejected">>, 0, 0)
      [] name = "HTTP 503" -> Err(<<"HTTP", "503">>, 503, 0)
      [] name = "HTTP 404" -> Err(<<"HTTP", "404">>, 404, 0)
      [] name = "bad gateway response" -> Err(<<"bad", "gateway", "response">>, 0, 502)
      [] name = "Failed to send emails" -> Err(<<"Failed", "to", "send", "emails">>, 0, 0)
      [] OTHER -> Err(<<name>>, 0, 0)

\* isRetryableError(error, config): false for a missing error; true when the
\* message holds one of the configured substrings, or error.status or
\* error.response.status is one of the configured codes
isRetryableError(name) ==
    LET error == Thrown(name)
    IN  /\ ~error.nullish
        /\ \/ \E i \in 1..Len(error.message) : error.message[i] \in RetryableMessages
           \/ error.status \in RetryableStatusCodes
           \/ error.responseStatus \in RetryableStatusCodes

\* A faulty variant of RetryLoop: the retries go on as long as the errors are
\* retryable, whatever maxAttempts is.
RECURSIVE RetryLoopUnbounded(_, _, _)
RetryLoopUnbounded(outcomes, attempt, maxAttempts) ==
    IF outcomes[attempt] = "ok"
    THEN [success |-> TRUE, attempts |-> attempt, calls |-> attempt,
          error |-> "none", threw |-> FALSE]
    ELSE IF attempt = Len(outcomes) \/ ~isRetryableError(outcomes[attempt])
         THEN [success |-> FALSE, attempts |-> maxAttempts, calls |-> attempt,
               error |-> outcomes[attempt], threw |-> FALSE]
         ELSE RetryLoopUnbounded(outcomes, attempt + 1, maxAttempts)

\* A faulty variant of RetryLoop: every error is retried while attempts are
\* left.
RECURSIVE RetryLoopRetriesAll(_, _, _)
RetryLoopRetriesAll(outcomes, attempt, maxAttempts) ==
    IF outcomes[attempt] = "ok"
    THEN [success |-> TRUE, attempts |-> attempt, calls |-> attempt,
          error |-> "none", threw |-> FALSE]
    ELSE IF attempt = maxAttempts
         THEN [success |-> FALSE, attempts |-> maxAttempts, calls |-> attempt,
               error |-> outcomes[attempt], threw |-> FALSE]
         ELSE RetryLoopRetriesAll(outcomes, attempt + 1, maxAttempts)

\* withRetry over the outcomes the operation has on its successive calls:
\* outcomes[i] is "ok" or the name of the value thrown by call i.  calls is
\* the number of times the operation was invoked.  The catch block reads
\* error.message before anything else (line 88): when the value thrown is
\* undefined or null that read throws a TypeError, which leaves withRetry
\* (threw).
RECURSIVE RetryLoop(_, _, _)
RetryLoop(outcomes, attempt, maxAttempts) ==
    IF outcomes[attempt] = "ok"
    THEN [success |-> TRUE, attempts |-> attempt, calls |-> attempt,
          error |-> "none", threw |-> FALSE]
    ELSE IF Thrown(outcomes[attempt]).nullish
         THEN [success |-> FALSE, attempts |-> attempt, calls |-> attempt,
               error |-> "TypeError", threw |-> TRUE]
    ELSE IF attempt = maxAttempts \/ ~isRetryableError(outcomes[attempt])
         THEN [success |-> FALSE, attempts |-> maxAttempts, calls |-> attempt,
               error |-> outcomes[attempt], threw |-> FALSE]
         ELSE RetryLoop(outcomes, attempt + 1, maxAttempts)

withRetry(outcomes, maxAttempts) == RetryLoop(outcomes, 1, maxAttempts)

---------------------------------------------------------------------------
(* The transport (SMTP connection, env.send): a tape gives the result of   *)
(* its successive calls within one processQueueBatch, "ok" or the message  *)
(* of the error thrown; past its end a tape repeats its last result.       *)

MaxTape == 2

Transport == {"ok", "ETIMEDOUT", "550 rejected"}

\* a tape that ends with the same result twice behaves as the tape without
\* its last element: one tape is kept for each behaviour
Tapes == {t \in UNION {[1..n -> Transport] : n \in 1..MaxTape} :
            Len(t) = 1 \/ t[Len(t)] # t[Len(t) - 1]}

TapeAt(tape, i) == IF i <= Len(tape) THEN tape[i] ELSE tape[Len(tape)]

\* recipients.slice(i, i + batchSize) for i = 0, batchSize, ...
RECURSIVE Chunks(_, _)
Chunks(recipients, size) ==
    IF Len(recipients) = 0 THEN <<>>
    ELSE <<SubSeq(recipients, 1, Min(size, Len(recipients)))>>
         \o Chunks(SubSeq(recipients, Min(size, Len(recipients)) + 1, Len(recipients)), size)

---------------------------------------------------------------------------
(* retry.js CircuitBreaker, as GmailProvider uses it *)

NewCircuitBreaker == [state |-> "CLOSED", failures |-> 0]

\* A faulty variant of onSuccess: the failure counter is left as it is.
onSuccessKeepsFailures(cb) ==
    [state |-> IF cb.state = "HALF_OPEN" THEN "CLOSED" ELSE cb.state,
     failures |-> cb.failures]

onSuccess(cb) ==
    [state |-> IF cb.state = "HALF_OPEN" THEN "CLOSED" ELSE cb.state, failures |-> 0]

\* A faulty variant of onFailure: the breaker opens one failure late.
onFailureOneLate(cb, threshold) ==
    [state |-> IF cb.failures + 1 > threshold THEN "OPEN" ELSE cb.state,
     failures |-> cb.failures + 1]

onFailure(cb, threshold) ==
    [state |-> IF cb.failures + 1 >= threshold THEN "OPEN" ELSE cb.state,
     failures |-> cb.failures + 1]

\* execute(fn) once fn has run: onFailure when fn threw, onSuccess otherwise
execute(cb, threw) ==
    IF threw THEN onFailure(cb, GmailFailureThreshold) ELSE onSuccess(cb)

---------------------------------------------------------------------------
(* gmailProvider.js sendBatchEmail: cur is the number of transport calls   *)
(* made so far; the provider and its breaker are created by each           *)
(* sendNewsletter call.  details tells of each sub-batch processed, in     *)
(* order, whether it went to results.successful.                           *)

\* the value circuitBreaker.execute(...).catch(...) gives for one sub-batch:
\* the envelope of withRetry (which has no count field) or, when the breaker
\* rejects the call, the object built by the catch handler.  withRetry
\* catches what its operation throws and returns an envelope, so the
\* function execute runs never throws.
GmailBatchResult(cb, batch, tape, cur) ==
    IF cb.state = "OPEN"
    THEN [success |-> FALSE, count |-> Num(Len(batch)), calls |-> 0, cb |-> cb]
    ELSE LET env == withRetry([k \in 1..GmailMaxAttempts |-> TapeAt(tape, cur + k)],
                              GmailMaxAttempts)
         IN  [success |-> env.success, count |-> Undefined, calls |-> env.calls,
              cb |-> execute(cb, FALSE)]

RECURSIVE GmailLoop(_, _, _, _)
GmailLoop(batches, i, tape, acc) ==
    IF i > Len(batches) THEN acc
    ELSE Let(GmailBatchResult(acc.cb, batches[i], tape, acc.cur), LAMBDA r :
         Let([cur |-> acc.cur + r.calls,
              cb |-> r.cb,
              totalSent |-> IF r.success THEN JsAdd(acc.totalSent, r.count)
                            ELSE acc.totalSent,
              totalFailed |-> IF r.success THEN acc.totalFailed
                              ELSE JsAdd(acc.totalFailed, r.count),
              delivered |-> IF r.success THEN acc.delivered \o batches[i]
                            ELSE acc.delivered,
              details |-> Append(acc.details, r.success)], LAMBDA next :
         IF ~r.success /\ r.cb.state = "OPEN" THEN next
         ELSE GmailLoop(batches, i + 1, tape, next)))

GmailSendBatchEmail(recipients, tape, cur) ==
    Let(GmailLoop(Chunks(recipients, GmailBccLimit), 1, tape,
                  [cur |-> cur, cb |-> NewCircuitBreaker, totalSent |-> Num(0),
                   totalFailed |-> Num(0), delivered |-> <<>>, details |-> <<>>]),
        LAMBDA acc :
        [success |-> JsIsZero(acc.totalFailed),
         totalSent |-> acc.totalSent,
         totalFailed |-> acc.totalFailed,
         error |-> "",
         cur |-> acc.cur,
         delivered |-> acc.delivered,
         details |-> acc.details,
         circuitBreakerState |-> acc.cb.state])

---------------------------------------------------------------------------
(* workerEmailProvider.js sendBatchEmail: the first env.send that throws   *)
(* ends the call with {success: false, error}; the success result carries  *)
(* no totalSent and no totalFailed.                                        *)

RECURSIVE WorkerLoop(_, _, _, _)
WorkerLoop(batches, i, tape, acc) ==
    IF i > Len(batches) THEN acc
    ELSE LET o == TapeAt(tape, acc.cur + 1)
         IN  IF o = "ok"
             THEN WorkerLoop(batches, i + 1, tape,
                             [acc EXCEPT !.cur = @ + 1, !.delivered = @ \o batches[i]])
             ELSE [acc EXCEPT !.cur = @ + 1, !.error = o]

WorkerSendBatchEmail(recipients, tape, cur) ==
    Let(WorkerLoop(Chunks(recipients, WorkerBccLimit), 1, tape,
                   [cur |-> cur, error |-> "", delivered |-> <<>>]), LAMBDA acc :
        [success |-> acc.error = "",
         totalSent |-> Undefined,
         totalFailed |-> Undefined,
         error |-> acc.error,
         cur |-> acc.cur,
         delivered |-> acc.delivered])

\* emailFactory.js sendNewsletter: the provider config.EMAIL_PROVIDER names
sendNewsletter(provider, recipients, tape, cur) ==
    IF provider = "gmail" THEN GmailSendBatchEmail(recipients, tape, cur)
    ELSE WorkerSendBatchEmail(recipients, tape, cur)

---------------------------------------------------------------------------
(* The feed: the items parseFeed returns, in document order.  An item's    *)
(* url is the href feedParser.js normalizeUrl produced.                    *)

FeedItems ==
    << [url |-> Url("https", 0, <<"p1">>), guid |-> "g1", title |-> "Post 1"],
       [url |-> Url("https", 0, <<"p1", "">>), guid |-> "g1b", title |-> "Post 1"],
       [url |-> Url("http", 443, <<"p2">>), guid |-> "g2", title |-> "Post 2"] >>

FeedIndex == 1..Len(FeedItems)

\* the items present in the feed, in document order
RECURSIVE ItemsFrom(_, _)
ItemsFrom(present, i) ==
    IF i > Len(FeedItems) THEN <<>>
    ELSE (IF i \in present THEN <<FeedItems[i]>> ELSE <<>>) \o ItemsFrom(present, i + 1)

\* discovery's identity of an item: normUrl and
\* postIdFromNormalizedUrl(normUrl) || item.guid || item.title || normUrl
ItemNormUrl(item) == normalizeUrl(item.url)
ItemPostId(item) ==
    IF postIdFromNormalizedUrl(ItemNormUrl(item)) # <<>>
    THEN postIdFromNormalizedUrl(ItemNormUrl(item))
    ELSE <<item.guid>>

\* every queue key the feed can give rise to, in the order KV.list returns keys
AllQueueKeys == << <<"p1">>, <<"p2">> >>

---------------------------------------------------------------------------
(* The KV store, one field per key prefix: queue maps a post id to the     *)
(* queue record stored under PREFIX_EMAIL_QUEUE, sent and sentUrl hold the *)
(* keys present under PREFIX_NEWSLETTER_SENT and                           *)
(* PREFIX_NEWSLETTER_SENT_URL, subscriber the addresses under              *)
(* PREFIX_SUBSCRIBER, dlq the newest dead-letter entries, oldest first.    *)

NoStats == [present |-> FALSE, total |-> 0, sent |-> 0, failed |-> 0, remaining |-> 0]

KvPutQueue(store, queueKey, queue) ==
    [store EXCEPT !.queue = [k \in DOMAIN @ \cup {queueKey} |->
                               IF k = queueKey THEN queue ELSE @[k]]]

KvDeleteQueue(store, queueKey) ==
    [store EXCEPT !.queue = [k \in DOMAIN @ \ {queueKey} |-> @[k]]]

\* kv.js getAllSubscribers: the addresses in the order KV.list returns the keys
RECURSIVE SubscribersFrom(_, _)
SubscribersFrom(present, i) ==
    IF i > Len(AllEmails) THEN <<>>
    ELSE (IF AllEmails[i] \in present THEN <<AllEmails[i]>> ELSE <<>>)
         \o SubscribersFrom(present, i + 1)

getAllSubscribers(store) == SubscribersFrom(store.subscriber, 1)

\* kv.js getQueuesByStatus: the keys of the stored queues with that status
RECURSIVE QueueKeysFrom(_, _, _)
QueueKeysFrom(store, status, i) ==
    IF i > Len(AllQueueKeys) THEN <<>>
    ELSE (IF AllQueueKeys[i] \in DOMAIN store.queue
             /\ store.queue[AllQueueKeys[i]].status = status
          THEN <<AllQueueKeys[i]>> ELSE <<>>)
         \o QueueKeysFrom(store, status, i + 1)

getQueuesByStatus(store, status) == QueueKeysFrom(store, status, 1)

---------------------------------------------------------------------------
(* processor.js alreadySent and finalizeQueue *)

\* Two faulty variants of alreadySent: one skips a post as soon as either
\* record exists, the other looks at the record kept by post id alone.
alreadySentEither(store, postId, normUrl) ==
    postId \in store.sent \/ SentUrlKey(normUrl) \in store.sentUrl

alreadySentById(store, postId, normUrl) == postId \in store.sent

alreadySent(store, postId, normUrl) ==
    postId \in store.sent /\ SentUrlKey(normUrl) \in store.sentUrl

FinalizeOps == {"putSent", "putSentUrl", "delete"}

\* finalizeQueue: the three store operations of its Promise.all; effects are
\* the ones that take effect (all of them unless the call is interrupted or
\* an operation fails)
finalizeQueue(store, queueKey, queue, effects) ==
    LET normUrl == normalizeUrl(queue.post.url)
        postId == IF postIdFromNormalizedUrl(normUrl) # <<>>
                  THEN postIdFromNormalizedUrl(normUrl)
                  ELSE queue.post.slug
        s1 == IF "putSent" \in effects
              THEN [store EXCEPT !.sent = @ \cup {postId}] ELSE store
        s2 == IF "putSentUrl" \in effects
              THEN [s1 EXCEPT !.sentUrl = @ \cup {SentUrlKey(normUrl)}] ELSE s1
    IN  IF "delete" \in effects THEN KvDeleteQueue(s2, queueKey) ELSE s2

---------------------------------------------------------------------------
(* processor.js processQueueBatch *)

NoSend == [success |-> FALSE, totalSent |-> Undefined, totalFailed |-> Undefined,
           error |-> "", cur |-> 0, delivered |-> <<>>]

NoEnvelope == [success |-> FALSE, attempts |-> 0, calls |-> 0, error |-> "none",
               threw |-> FALSE]

Result(success, waiting, completed, stats, retryScheduled, error) ==
    [success |-> success, waiting |-> waiting, completed |-> completed,
     stats |-> stats, retryScheduled |-> retryScheduled, error |-> error]

\* the results sendNewsletter gives on the successive calls of the operation
\* withRetry runs, each call going on where the tape was left
RECURSIVE SendResults(_, _, _, _, _)
SendResults(provider, recipients, tape, cur, n) ==
    IF n = 0 THEN <<>>
    ELSE Let(sendNewsletter(provider, recipients, tape, cur), LAMBDA r :
             <<r>> \o SendResults(provider, recipients, tape, r.cur, n - 1))

\* A faulty variant of SendOutcome: the operation never looks at
\* sendResult.success and returns whatever the provider gave.
SendOutcomeUnchecked(sendResult) == "ok"

\* the operation of the send's withRetry:
\* if (!sendResult.success) throw new Error(sendResult.error || 'Failed to send emails')
SendOutcome(sendResult) ==
    IF sendResult.success THEN "ok"
    ELSE IF sendResult.error # "" THEN sendResult.error
    ELSE "Failed to send emails"

\* lines 239-241 and 247-250: nothing left to send
FinalizeNow(store, queueKey, queue, effects) ==
    [store |-> finalizeQueue(store, queueKey, queue, effects),
     queue |-> queue,
     result |-> Result(TRUE, FALSE, TRUE, NoStats, FALSE, ""),
     handed |-> FALSE, batch |-> <<>>, sendResult |-> NoSend, env |-> NoEnvelope,
     finalized |-> TRUE, wrote |-> FALSE, effects |-> effects]

\* A faulty variant of BatchFailed: the retry puts the queue back to pending.
BatchFailedBackToPending(store, queueKey, queue, nextBatch, sendResult, env) ==
    LET count == JsOrZero(queue.batchRetryCount) + 1
        q == IF count >= MaxBatchRetries
             THEN [queue EXCEPT !.failedRecipients = @ \o nextBatch,
                                !.sentTo = @ \o nextBatch,
                                !.batchRetryCount = Num(0)]
             ELSE [queue EXCEPT !.batchRetryCount = Num(count),
                                !.nextSendAt = RetryWaitMinutes,
                                !.status = "pending"]
    IN  [store |-> KvPutQueue(store, queueKey, q),
         queue |-> q,
         result |-> Result(FALSE, FALSE, FALSE, NoStats, TRUE, env.error),
         handed |-> TRUE, batch |-> nextBatch, sendResult |-> sendResult, env |-> env,
         finalized |-> FALSE, wrote |-> TRUE, effects |-> FinalizeOps]

\* A faulty variant of BatchFailed: at the third failure every subscriber
\* still to be sent is marked as processed, not only the batch.
BatchFailedSkipsRest(store, queueKey, queue, nextBatch, sendResult, env) ==
    LET count == JsOrZero(queue.batchRetryCount) + 1
        q == IF count >= MaxBatchRetries
             THEN [queue EXCEPT !.failedRecipients = @ \o nextBatch,
                                !.sentTo = queue.subscribers,
                                !.batchRetryCount = Num(0)]
             ELSE [queue EXCEPT !.batchRetryCount = Num(count),
                                !.nextSendAt = RetryWaitMinutes]
    IN  [store |-> KvPutQueue(store, queueKey, q),
         queue |-> q,
         result |-> Result(FALSE, FALSE, FALSE, NoStats, TRUE, env.error),
         handed |-> TRUE, batch |-> nextBatch, sendResult |-> sendResult, env |-> env,
         finalized |-> FALSE, wrote |-> TRUE, effects |-> FinalizeOps]

\* A faulty variant of BatchFailed: a batch that is to be sent again is put
\* into sentTo all the same.
BatchFailedSkipsOnRetry(store, queueKey, queue, nextBatch, sendResult, env) ==
    LET count == JsOrZero(queue.batchRetryCount) + 1
        q == IF count >= MaxBatchRetries
             THEN [queue EXCEPT !.failedRecipients = @ \o nextBatch,
                                !.sentTo = @ \o nextBatch,
                                !.batchRetryCount = Num(0)]
             ELSE [queue EXCEPT !.batchRetryCount = Num(count),
                                !.sentTo = @ \o nextBatch,
                                !.nextSendAt = RetryWaitMinutes]
    IN  [store |-> KvPutQueue(store, queueKey, q),
         queue |-> q,
         result |-> Result(FALSE, FALSE, FALSE, NoStats, TRUE, env.error),
         handed |-> TRUE, batch |-> nextBatch, sendResult |-> sendResult, env |-> env,
         finalized |-> FALSE, wrote |-> TRUE, effects |-> FinalizeOps]

\* A faulty variant of BatchFailed: a batch that is given up is put into
\* failedRecipients and not into sentTo.
BatchFailedForgetsBatch(store, queueKey, queue, nextBatch, sendResult, env) ==
    LET count == JsOrZero(queue.batchRetryCount) + 1
        q == IF count >= MaxBatchRetries
             THEN [queue EXCEPT !.failedRecipients = @ \o nextBatch,
                                !.batchRetryCount = Num(0)]
             ELSE [queue EXCEPT !.batchRetryCount = Num(count),
                                !.nextSendAt = RetryWaitMinutes]
    IN  [store |-> KvPutQueue(store, queueKey, q),
         queue |-> q,
         result |-> Result(FALSE, FALSE, FALSE, NoStats, TRUE, env.error),
         handed |-> TRUE, batch |-> nextBatch, sendResult |-> sendResult, env |-> env,
         finalized |-> FALSE, wrote |-> TRUE, effects |-> FinalizeOps]

\* A faulty variant of BatchFailed: the batch is added to failedRecipients
\* on every failed call, not only on the one that gives the batch up.
BatchFailedListsEveryFailure(store, queueKey, queue, nextBatch, sendResult, env) ==
    LET count == JsOrZero(queue.batchRetryCount) + 1
        q == IF count >= MaxBatchRetries
             THEN [queue EXCEPT !.failedRecipients = @ \o nextBatch,
                                !.sentTo = @ \o nextBatch,
                                !.batchRetryCount = Num(0)]
             ELSE [queue EXCEPT !.failedRecipients = @ \o nextBatch,
                                !.batchRetryCount = Num(count),
                                !.nextSendAt = RetryWaitMinutes]
    IN  [store |-> KvPutQueue(store, queueKey, q),
         queue |-> q,
         result |-> Result(FALSE, FALSE, FALSE, NoStats, TRUE, env.error),
         handed |-> TRUE, batch |-> nextBatch, sendResult |-> sendResult, env |-> env,
         finalized |-> FALSE, wrote |-> TRUE, effects |-> FinalizeOps]

\* lines 278-307: the send failed after its retries
BatchFailed(store, queueKey, queue, nextBatch, sendResult, env) ==
    LET count == JsOrZero(queue.batchRetryCount) + 1
        q == IF count >= MaxBatchRetries
             THEN [queue EXCEPT !.failedRecipients = @ \o nextBatch,
                                !.sentTo = @ \o nextBatch,
                                !.batchRetryCount = Num(0)]
             ELSE [queue EXCEPT !.batchRetryCount = Num(count),
                                !.nextSendAt = RetryWaitMinutes]
    IN  [store |-> KvPutQueue(store, queueKey, q),
         queue |-> q,
         result |-> Result(FALSE, FALSE, FALSE, NoStats, TRUE, env.error),
         handed |-> TRUE, batch |-> nextBatch, sendResult |-> sendResult, env |-> env,
         finalized |-> FALSE, wrote |-> TRUE, effects |-> FinalizeOps]

\* A faulty variant of BatchStats: the failed recipients, which sentTo holds
\* already, are taken off the remaining count once more.
BatchStatsLessFailed(total, sentTo, failedRecipients) ==
    [present |-> TRUE, total |-> total, sent |-> Len(sentTo),
     failed |-> Len(failedRecipients),
     remaining |-> total - Len(sentTo) - Len(failedRecipients)]

\* lines 337-342: queue.stats
BatchStats(total, sentTo, failedRecipients) ==
    [present |-> TRUE, total |-> total, sent |-> Len(sentTo),
     failed |-> Len(failedRecipients), remaining |-> total - Len(sentTo)]

\* A faulty variant of StoreAfterSend: the queue is written back whatever
\* its status.
StoreAfterSendAlwaysPut(store, queueKey, q, effects) == KvPutQueue(store, queueKey, q)

\* lines 349-353: a completed queue is finalized, any other is written back
StoreAfterSend(store, queueKey, q, effects) ==
    IF q.status = "completed"
    THEN finalizeQueue(store, queueKey, q, effects)
    ELSE KvPutQueue(store, queueKey, q)

\* A faulty variant of BatchSent: the retry count of the batch is not reset
\* when the send succeeds.
BatchSentKeepsCount(store, queueKey, queue, nextBatch, sendResult, env, effects) ==
    LET total == Len(queue.subscribers)
        sentTo == IF JsDefined(sendResult.totalSent)
                  THEN (IF JsGtZero(sendResult.totalSent)
                        THEN queue.sentTo \o SliceTo(nextBatch, sendResult.totalSent)
                        ELSE queue.sentTo)
                  ELSE queue.sentTo \o nextBatch
        failedRecipients ==
                  IF JsDefined(sendResult.totalSent) /\ JsGtZero(sendResult.totalFailed)
                  THEN queue.failedRecipients \o SliceFrom(nextBatch, sendResult.totalSent)
                  ELSE queue.failedRecipients
        status == IF Len(sentTo) >= total THEN "completed" ELSE "in-progress"
        stats == BatchStats(total, sentTo, failedRecipients)
        q == [queue EXCEPT !.sentTo = sentTo,
                           !.failedRecipients = failedRecipients,
                           !.status = status,
                           !.stats = stats,
                           !.nextSendAt = IF status # "completed"
                                          THEN BATCH_WAIT_MINUTES ELSE @]
    IN  [store |-> StoreAfterSend(store, queueKey, q, effects),
         queue |-> q,
         result |-> Result(TRUE, FALSE, FALSE, stats, FALSE, ""),
         handed |-> TRUE, batch |-> nextBatch, sendResult |-> sendResult, env |-> env,
         finalized |-> status = "completed", wrote |-> status # "completed",
         effects |-> IF status = "completed" THEN effects ELSE FinalizeOps]

\* lines 309-356: the send succeeded
BatchSent(store, queueKey, queue, nextBatch, sendResult, env, effects) ==
    LET total == Len(queue.subscribers)
        sentTo == IF JsDefined(sendResult.totalSent)
                  THEN (IF JsGtZero(sendResult.totalSent)
                        THEN queue.sentTo \o SliceTo(nextBatch, sendResult.totalSent)
                        ELSE queue.sentTo)
                  ELSE queue.sentTo \o nextBatch
        failedRecipients ==
                  IF JsDefined(sendResult.totalSent) /\ JsGtZero(sendResult.totalFailed)
                  THEN queue.failedRecipients \o SliceFrom(nextBatch, sendResult.totalSent)
                  ELSE queue.failedRecipients
        status == IF Len(sentTo) >= total THEN "completed" ELSE "in-progress"
        stats == BatchStats(total, sentTo, failedRecipients)
        q == [queue EXCEPT !.sentTo = sentTo,
                           !.failedRecipients = failedRecipients,
                           !.batchRetryCount = Num(0),
                           !.status = status,
                           !.stats = stats,
                           !.nextSendAt = IF status # "completed"
                                          THEN BATCH_WAIT_MINUTES ELSE @]
    IN  [store |-> StoreAfterSend(store, queueKey, q, effects),
         queue |-> q,
         result |-> Result(TRUE, FALSE, FALSE, stats, FALSE, ""),
         handed |-> TRUE, batch |-> nextBatch, sendResult |-> sendResult, env |-> env,
         finalized |-> status = "completed", wrote |-> status # "completed",
         effects |-> IF status = "completed" THEN effects ELSE FinalizeOps]

\* A faulty variant of processQueueBatch: the subscribers are read from the
\* store again at every call instead of being taken from the queue.
processQueueBatchRequery(store, provider, queueKey, stored, tape, effects) ==
    LET queue == [stored EXCEPT !.subscribers = getAllSubscribers(store)]
    IN  IF queue.nextSendAt > 0
        THEN [store |-> store, queue |-> queue,
              result |-> Result(TRUE, TRUE, FALSE, NoStats, FALSE, ""),
              handed |-> FALSE, batch |-> <<>>, sendResult |-> NoSend, env |-> NoEnvelope,
              finalized |-> FALSE, wrote |-> FALSE, effects |-> FinalizeOps]
        ELSE LET offset == Len(queue.sentTo)
                 total == Len(queue.subscribers)
                 nextBatch == Slice(queue.subscribers, offset, Min(offset + BATCH_SIZE, total))
             IN  IF total = 0 \/ offset >= total \/ Len(nextBatch) = 0
                 THEN FinalizeNow(store, queueKey, queue, effects)
                 ELSE Let(SendResults(provider, nextBatch, tape, 0, SendMaxAttempts),
                          LAMBDA results :
                      Let(withRetry([i \in 1..SendMaxAttempts |-> SendOutcome(results[i])],
                                    SendMaxAttempts),
                          LAMBDA env :
                      IF ~env.success
                      THEN BatchFailed(store, queueKey, queue, nextBatch, results[env.calls],
                                       env)
                      ELSE BatchSent(store, queueKey, queue, nextBatch, results[env.calls],
                                     env, effects)))

\* A faulty variant of processQueueBatch: nextSendAt is not looked at.
processQueueBatchNoWait(store, provider, queueKey, queue, tape, effects) ==
    LET offset == Len(queue.sentTo)
        total == Len(queue.subscribers)
        nextBatch == Slice(queue.subscribers, offset, Min(offset + BATCH_SIZE, total))
    IN  IF total = 0 \/ offset >= total \/ Len(nextBatch) = 0
        THEN FinalizeNow(store, queueKey, queue, effects)
        ELSE Let(SendResults(provider, nextBatch, tape, 0, SendMaxAttempts),
                 LAMBDA results :
             Let(withRetry([i \in 1..SendMaxAttempts |-> SendOutcome(results[i])],
                           SendMaxAttempts),
                 LAMBDA env :
             IF ~env.success
             THEN BatchFailed(store, queueKey, queue, nextBatch, results[env.calls], env)
             ELSE BatchSent(store, queueKey, queue, nextBatch, results[env.calls],
                            env, effects)))

\* processQueueBatch(env, config, queueKey, queue): queue is the record
\* dailyRun read, tape the transport's behaviour during the call, effects the
\* operations of finalizeQueue that take effect.  (The catch block of lines
\* 357-370 runs only when a store write throws, which this model has only
\* inside finalizeQueue, where it is caught.)
processQueueBatch(store, provider, queueKey, queue, tape, effects) ==
    IF queue.nextSendAt > 0
    THEN [store |-> store, queue |-> queue,
          result |-> Result(TRUE, TRUE, FALSE, NoStats, FALSE, ""),
          handed |-> FALSE, batch |-> <<>>, sendResult |-> NoSend, env |-> NoEnvelope,
          finalized |-> FALSE, wrote |-> FALSE, effects |-> FinalizeOps]
    ELSE LET offset == Len(queue.sentTo)
             total == Len(queue.subscribers)
             nextBatch == Slice(queue.subscribers, offset, Min(offset + BATCH_SIZE, total))
         IN  IF total = 0 \/ offset >= total \/ Len(nextBatch) = 0
             THEN FinalizeNow(store, queueKey, queue, effects)
             ELSE Let(SendResults(provider, nextBatch, tape, 0, SendMaxAttempts),
                      LAMBDA results :
                  Let(withRetry([i \in 1..SendMaxAttempts |-> SendOutcome(results[i])],
                                SendMaxAttempts),
                      LAMBDA env :
                  IF ~env.success
                  THEN BatchFailed(store, queueKey, queue, nextBatch, results[env.calls],
                                   env)
                  ELSE BatchSent(store, queueKey, queue, nextBatch, results[env.calls],
                                 env, effects)))

---------------------------------------------------------------------------
(* processor.js discoverFromRssAndQueue *)

NewQueue(normUrl, postId, subscribers) ==
    [post |-> [url |-> normUrl, slug |-> postId],
     subscribers |-> subscribers,
     sentTo |-> <<>>,
     failedRecipients |-> <<>>,
     status |-> "pending",
     nextSendAt |-> 0,
     batchRetryCount |-> Undefined,
     stats |-> NoStats]

\* A faulty variant of UnsentPosts: alreadySent is not asked.
UnsentPostsAll(store, items, i) == items

\* step 1: the items of the feed that alreadySent does not report as sent
RECURSIVE UnsentPosts(_, _, _)
UnsentPosts(store, items, i) ==
    IF i > Len(items) THEN <<>>
    ELSE (IF alreadySent(store, ItemPostId(items[i]), ItemNormUrl(items[i]))
          THEN <<>> ELSE <<items[i]>>)
         \o UnsentPosts(store, items, i + 1)

\* step 2: one queue per unsent post until config.MAX_POSTS_PER_RUN are
\* created; a post whose queue key is already in the store is passed over
RECURSIVE CreateQueues(_, _, _, _, _, _)
CreateQueues(cfg, acc, unsent, i, created, subscribers) ==
    IF i > Len(unsent) \/ created >= cfg.MAX_POSTS_PER_RUN THEN acc
    ELSE LET postId == ItemPostId(unsent[i])
         IN  IF postId \in DOMAIN acc.store.queue
             THEN CreateQueues(cfg, acc, unsent, i + 1, created, subscribers)
             ELSE CreateQueues(cfg,
                    [store |-> KvPutQueue(acc.store, postId,
                                          NewQueue(ItemNormUrl(unsent[i]), postId,
                                                   subscribers)),
                     created |-> acc.created \cup {postId}],
                    unsent, i + 1, created + 1, subscribers)

discoverFromRssAndQueue(store, cfg, items, fetchOk) ==
    LET subscribers == getAllSubscribers(store)
    IN  IF Len(subscribers) = 0 \/ ~fetchOk \/ Len(items) = 0
        THEN [store |-> store, created |-> {}]
        ELSE CreateQueues(cfg, [store |-> store, created |-> {}],
                          UnsentPosts(store, items, 1), 1, 0, subscribers)

---------------------------------------------------------------------------
(* processor.js dailyRun *)

\* retry.js DeadLetterQueue.add({key, queue}, result.error): the entry is
\* kept by the key of its queue.  Nothing in the program reads the entries
\* back, and each expires after seven days: the store keeps the newest
\* MaxDlq of them
DlqAdd(store, queueKey) ==
    [store EXCEPT !.dlq = SubSeq(Append(@, queueKey),
                                 Max(1, Len(@) + 2 - MaxDlq), Len(@) + 1)]

\* for (const { key, queue } of queues): one processQueueBatch per queue
\* read, then dlq.add when the result is a failure that carries an error
\* (dead collects the keys dlq.add was called for)
RECURSIVE ProcessQueues(_, _, _, _, _, _, _)
ProcessQueues(acc, read, provider, keys, i, tapes, effects) ==
    IF i > Len(keys) THEN acc
    ELSE Let(processQueueBatch(acc.store, provider, keys[i], read.queue[keys[i]],
                               tapes[keys[i]], effects[keys[i]]), LAMBDA out :
         Let([store |-> IF ~out.result.success /\ out.result.error # ""
                        THEN DlqAdd(out.store, keys[i]) ELSE out.store,
              dead |-> IF ~out.result.success /\ out.result.error # ""
                       THEN acc.dead \cup {keys[i]} ELSE acc.dead,
              outs |-> [k \in DOMAIN acc.outs \cup {keys[i]} |->
                          IF k = keys[i] THEN [out EXCEPT !.store = <<>>]
                          ELSE acc.outs[k]]], LAMBDA next :
         ProcessQueues(next, read, provider, keys, i + 1, tapes, effects)))

NoOuts == [k \in {} |-> 0]

\* A faulty variant of dailyRun: the pending queues are not looked for, and
\* discovery runs whenever no queue is in progress.
dailyRunWithoutPending(store, cfg, items, tapes, effects, fetchOk) ==
    LET activeQueues == getQueuesByStatus(store, "in-progress")
    IN  IF Len(activeQueues) > 0
        THEN LET r == ProcessQueues([store |-> store, dead |-> {}, outs |-> NoOuts], store,
                                    cfg.EMAIL_PROVIDER, activeQueues, 1, tapes, effects)
             IN  [store |-> r.store, branch |-> "in-progress", outs |-> r.outs,
                  dead |-> r.dead, created |-> {}]
        ELSE LET d == discoverFromRssAndQueue(store, cfg, items, fetchOk)
             IN  [store |-> d.store, branch |-> "discover", outs |-> NoOuts,
                  dead |-> {}, created |-> d.created]

\* dailyRun: the in-progress queues if there are any, else the pending
\* queues if there are any, else discovery
dailyRun(store, cfg, items, tapes, effects, fetchOk) ==
    LET activeQueues == getQueuesByStatus(store, "in-progress")
        pendingQueues == getQueuesByStatus(store, "pending")
    IN  IF Len(activeQueues) > 0
        THEN Let(ProcessQueues([store |-> store, dead |-> {}, outs |-> NoOuts], store,
                               cfg.EMAIL_PROVIDER, activeQueues, 1, tapes, effects), LAMBDA r :
                 [store |-> r.store, branch |-> "in-progress", outs |-> r.outs,
                  dead |-> r.dead, created |-> {}])
        ELSE IF Len(pendingQueues) > 0
        THEN Let(ProcessQueues([store |-> store, dead |-> {}, outs |-> NoOuts], store,
                               cfg.EMAIL_PROVIDER, pendingQueues, 1, tapes, effects), LAMBDA r :
                 [store |-> r.store, branch |-> "pending", outs |-> r.outs,
                  dead |-> r.dead, created |-> {}])
        ELSE Let(discoverFromRssAndQueue(store, cfg, items, fetchOk), LAMBDA d :
                 [store |-> d.store, branch |-> "discover", outs |-> NoOuts,
                  dead |-> {}, created |-> d.created])

---------------------------------------------------------------------------
(* retry.js by itself: a call of withRetry with any operation, and a       *)
(* CircuitBreaker whose execute is called by any number of callers.        *)

MaxScript == 3

\* what an operation may do on a call: return, or throw one of these values
Outcomes == {"ok", "ETIMEDOUT", "connect ECONNRESET", "550 rejected", "HTTP 503",
             "HTTP 404", "bad gateway response", "undefined"}

NoRetryRun == [script |-> <<>>, maxAttempts |-> 0, env |-> NoEnvelope]

BreakerThreshold == 2       \* options.failureThreshold
BreakerResetTimeout == 2    \* options.resetTimeout, in ticks of the clock
MaxPendingCalls == 3        \* execute calls that may be pending at once

CallIds == 1..MaxPendingCalls

NoEvent == [op |-> "none", id |-> 0, from |-> "CLOSED", openFor |-> -1, wasTrial |-> FALSE]

\* cb is the breaker's state and failures, wait the time left until
\* nextAttempt (0 once Date.now() >= nextAttempt), pending the execute calls
\* whose wrapped function has been invoked and has not settled.  The other
\* fields record history: trial is the call that moved the breaker from OPEN
\* to HALF_OPEN (0 when it has settled), halfOpenCalls the calls invoked
\* during the present HALF_OPEN period, openFor the time since the state
\* became OPEN (-1 when it is not OPEN), streak the number of failed calls
\* since the last successful one, last the step just taken.
NewBreaker ==
    [cb |-> NewCircuitBreaker, wait |-> 0, pending |-> {}, trial |-> 0,
     halfOpenCalls |-> {}, openFor |-> -1, streak |-> 0, last |-> NoEvent]

---------------------------------------------------------------------------
(* retry.js DeadLetterQueue by itself: items are added, taken back with    *)
(* retry and added again.                                                  *)

MaxDlqKeys == 3       \* entries the store holds at once
MaxDlqRetries == 2    \* retries of one item

\* add(item, error): the entry stored under a new key.  JSON.stringify
\* leaves out a retryCount that is undefined
DeadLetterAdd(store, key, item) ==
    [k \in DOMAIN store \cup {key} |->
        IF k = key THEN [item |-> item, retryCount |-> JsOrZero(item.retryCount)]
        ELSE store[k]]

\* A faulty variant of DeadLetterRetry: the item is returned as it was stored.
DeadLetterRetrySameCount(store, key) ==
    IF key \notin DOMAIN store THEN [store |-> store, returned |-> <<>>]
    ELSE [store |-> [k \in DOMAIN store \ {key} |-> store[k]],
          returned |-> <<store[key].item>>]

\* retry(key): <<>> stands for null, <<item>> for the item returned
DeadLetterRetry(store, key) ==
    IF key \notin DOMAIN store THEN [store |-> store, returned |-> <<>>]
    ELSE [store |-> [k \in DOMAIN store \ {key} |-> store[k]],
          returned |-> <<[store[key].item EXCEPT
                            !.retryCount = Num(JsOrZero(@) + 1)]>>]

\* store holds the entries by key; held the items retry has returned that
\* have not been added again.  The rest records history: retries[k] is the
\* number of retry calls the item of entry k has been returned by since it
\* was first added (held keeps the number with each item), last the call
\* just made with the store before it.
NoDeadLetters ==
    [store |-> [k \in {} |-> 0], held |-> {}, retries |-> [k \in {} |-> 0],
     last |-> [op |-> "none", key |-> 0, before |-> [k \in {} |-> 0],
               returned |-> <<>>]]
---------------------------------------------------------------------------
(* feedParser.js parseFeed on XML content.  A document is its root         *)
(* element and its blocks in document order; a block is an <entry>, an     *)
(* <item> or an <item rdf:about="..."> with the URL its link gives, if     *)
(* any.  The root "UPPER" is a document written in upper-case tags, which  *)
(* the case-insensitive expressions of the extractors match and the        *)
(* includes() tests of parseXmlFeed do not; "none" is a document without   *)
(* a root that names its format.                                           *)

MaxBlocks == 2

\* URLs as the feed writes them: scheme "" is a URL written without protocol
RawUrls ==
    { [scheme |-> "https", port |-> 0, segs |-> <<"p1">>],
      [scheme |-> "", port |-> 443, segs |-> <<"p1">>],
      [scheme |-> "https", port |-> 0, segs |-> <<"p2">>] }

Docs ==
    LET links == {<<>>} \cup {<<r>> : r \in RawUrls}
        blocks == [tag : {"entry", "item"}, link : links, about : {<<>>}]
                  \cup [tag : {"item "}, link : links, about : {<<r>> : r \in RawUrls}]
    IN  [root : {"rss", "feed", "rdf:RDF", "none", "UPPER"}, json : BOOLEAN,
         blocks : UNION {[1..n -> blocks] : n \in 1..MaxBlocks}]

\* feedParser.js normalizeUrl: https:// is put before a URL without
\* protocol, and the result is new URL(normalized).href
feedParserNormalizeUrl(raw) ==
    LET scheme == IF raw.scheme = "" THEN "https" ELSE raw.scheme
    IN  Url(scheme, IF raw.port = DefaultPort(scheme) THEN 0 ELSE raw.port, raw.segs)

\* normalizeItem of the block at position i, whose title tells it from the
\* other blocks
normalizeItem(raw, i) ==
    [url |-> feedParserNormalizeUrl(raw), title |-> <<"Post", i>>, guid |-> raw]

\* the items an extractor takes from the blocks from position i on.  The
\* expression of Atom matches <entry ...>, the one of RSS 2.0 and of RSS 1.0
\* <item ...>; the URL is the link, and for RSS 1.0 the rdf:about attribute
\* of the item element when there is no link; a block in which no URL is
\* found is left out
RECURSIVE ExtractItems(_, _, _)
ExtractItems(blocks, i, extractor) ==
    IF i > Len(blocks) THEN <<>>
    ELSE LET tags == IF extractor = "atom" THEN {"entry"} ELSE {"item", "item "}
             url == IF extractor = "rss1" /\ blocks[i].link = <<>>
                    THEN blocks[i].about ELSE blocks[i].link
         IN  (IF blocks[i].tag \in tags /\ url # <<>>
              THEN <<normalizeItem(url[1], i)>> ELSE <<>>)
             \o ExtractItems(blocks, i + 1, extractor)

parseAtomEntries(doc) == ExtractItems(doc.blocks, 1, "atom")

parseRss2Items(doc) == ExtractItems(doc.blocks, 1, "rss2")

parseRss1Items(doc) == ExtractItems(doc.blocks, 1, "rss1")

\* xml.includes('<entry'), xml.includes('<item>'), xml.includes('<item ')
XmlIncludes(doc, tag) ==
    doc.root # "UPPER" /\ \E i \in 1..Len(doc.blocks) : doc.blocks[i].tag = tag

\* lines 37-54: the items of the extractors that fire, or of all three when
\* that gives nothing
ExtractedItems(doc) ==
    LET atom == IF doc.root = "feed" \/ XmlIncludes(doc, "entry")
                THEN parseAtomEntries(doc) ELSE <<>>
        rss2 == IF doc.root = "rss" \/ XmlIncludes(doc, "item")
                THEN parseRss2Items(doc) ELSE <<>>
        rss1 == IF doc.root = "rdf:RDF" \/ XmlIncludes(doc, "item ")
                THEN parseRss1Items(doc) ELSE <<>>
    IN  IF Len(atom \o rss2 \o rss1) = 0
        THEN parseRss2Items(doc) \o parseAtomEntries(doc) \o parseRss1Items(doc)
        ELSE atom \o rss2 \o rss1

\* A faulty variant of DedupByUrl: every item is kept.
DedupNothing(items, i, seen) == items

\* lines 56-62: items.filter with the set of the URLs seen
RECURSIVE DedupByUrl(_, _, _)
DedupByUrl(items, i, seen) ==
    IF i > Len(items) THEN <<>>
    ELSE IF items[i].url \in seen THEN DedupByUrl(items, i + 1, seen)
    ELSE <<items[i]>> \o DedupByUrl(items, i + 1, seen \cup {items[i].url})

parseXmlFeed(doc) == DedupByUrl(ExtractedItems(doc), 1, {})

\* parseFeed(content, contentType): doc.json tells whether the content type
\* the feed was served with contains 'json'; parseJsonFeed then has
\* JSON.parse throw on the XML content, and its catch returns []
parseFeed(doc) ==
    IF doc.json THEN <<>> ELSE parseXmlFeed(doc)

NoParse == [doc |-> [root |-> "none", json |-> FALSE, blocks |-> <<>>],
            items |-> <<>>, done |-> FALSE]

---------------------------------------------------------------------------
(* gmailProvider.js sendBatchEmail by itself: one call on a new provider,  *)
(* with recipients 1..n and a transport that behaves as the tape says.     *)

MaxGmailRecipients == 4
MaxGmailTape == 3
MaxInFlight == 2

NoGmailRun == [recipients |-> <<>>, tape |-> <<"ok">>, result |-> NoSend, done |-> FALSE]

---------------------------------------------------------------------------
(* The state machine.  An invocation of dailyRun is one step: the          *)
(* scheduled handler and the admin route both await it, and the            *)
(* invocations of these specifications do not overlap.                     *)

Providers == {"gmail", "worker-email"}

\* lastRun describes the dailyRun invocation that has just returned: its
\* branch, what each processQueueBatch call did (outs), the queue records
\* the calls were given (pre), the status of every queue the store held when
\* the invocation began (found), the sent records it held then (had) and the
\* keys discovery created, the keys dlq.add was called for (dead), the
\* subscriber list and the feed items the invocation read (subscribers,
\* items, fetched), and lastSend as it was when the invocation began (prev).
\* Any other step sets it back to NoRun.
NoRun == [branch |-> "none", outs |-> NoOuts, pre |-> NoOuts, found |-> NoOuts,
          had |-> [sent |-> {}, sentUrl |-> {}], created |-> {}, dead |-> {},
          subscribers |-> <<>>, items |-> <<>>, fetched |-> FALSE, prev |-> NoOuts]

\* the subscriber lists the store may hold when the model starts: none, or
\* the first n addresses
SubscriberSets == {{AllEmails[i] : i \in 1..n} : n \in 0..Cardinality(Emails)}

\* handedTo[k] holds the addresses of the batches processQueueBatch has
\* handed to EmailFactory.sendNewsletter for the queue of key k since the
\* queue was created
NoneHanded == [k \in {AllQueueKeys[i] : i \in 1..Len(AllQueueKeys)} |-> {}]

\* lastSend[k] describes the last call of processQueueBatch that handed a
\* batch of the queue of key k to the provider: the batch, the length of
\* sentTo before it, and how it ended ("sent", "retry" when a later call is
\* to send the batch again, "gaveUp" when the batch was given up); "none"
\* for a queue that has had no batch handed since it was created
NoSendYet == [batch |-> <<>>, offset |-> 0, outcome |-> "none"]

NoneSent == [k \in {AllQueueKeys[i] : i \in 1..Len(AllQueueKeys)} |-> NoSendYet]

\* inFlight[n] holds what an invocation of dailyRun that has read the store
\* and has not yet written is about to write; no invocation is in flight in
\* the specifications whose invocations do not overlap
NoneInFlight == [n \in {} |-> 0]

Init ==
    /\ kv \in [queue : {NoOuts}, sent : {{}}, sentUrl : {{}},
               subscriber : SubscriberSets, dlq : {<<>>}]
    /\ feed = {}
    /\ config \in [EMAIL_PROVIDER : Providers, MAX_POSTS_PER_RUN : {MAX_POSTS_PER_RUN}]
    /\ lastRun = NoRun
    /\ handedTo = NoneHanded
    /\ lastSend = NoneSent
    /\ retryRun = NoRetryRun
    /\ breaker = NewBreaker
    /\ deadLetters = NoDeadLetters
    /\ parseRun = NoParse
    /\ gmailRun = NoGmailRun
    /\ inFlight = NoneInFlight

\* the queues a run started now would process
RunKeys(store) ==
    IF Len(getQueuesByStatus(store, "in-progress")) > 0
    THEN getQueuesByStatus(store, "in-progress")
    ELSE getQueuesByStatus(store, "pending")

Range(seq) == {seq[i] : i \in 1..Len(seq)}

AllEffects(store) == [k \in Range(RunKeys(store)) |-> FinalizeOps]

Ran(r, fetchOk) ==
    /\ kv' = r.store
    /\ lastRun' = [branch |-> r.branch, outs |-> r.outs,
                   pre |-> [k \in DOMAIN r.outs |-> kv.queue[k]],
                   found |-> [k \in DOMAIN kv.queue |-> kv.queue[k].status],
                   had |-> [sent |-> kv.sent, sentUrl |-> kv.sentUrl],
                   created |-> r.created, dead |-> r.dead,
                   subscribers |-> getAllSubscribers(kv),
                   items |-> ItemsFrom(feed, 1), fetched |-> fetchOk,
                   prev |-> lastSend]
    /\ lastSend' = [k \in DOMAIN lastSend |->
                      IF k \in r.created \/ k \notin DOMAIN r.store.queue THEN NoSendYet
                      ELSE IF k \in DOMAIN r.outs /\ r.outs[k].handed
                      THEN [batch |-> r.outs[k].batch,
                            offset |-> Len(kv.queue[k].sentTo),
                            outcome |-> IF r.outs[k].result.success THEN "sent"
                                        ELSE IF r.outs[k].result.retryScheduled
                                                /\ r.outs[k].queue.nextSendAt > 0
                                        THEN "retry" ELSE "gaveUp"]
                      ELSE lastSend[k]]
    /\ handedTo' = [k \in DOMAIN handedTo |->
                      IF k \in r.created THEN {}
                      ELSE IF k \in DOMAIN r.outs /\ r.outs[k].handed
                      THEN handedTo[k] \cup Range(r.outs[k].batch)
                      ELSE handedTo[k]]
    /\ UNCHANGED <<feed, config, retryRun, breaker, deadLetters, parseRun, gmailRun, inFlight>>

\* one invocation of dailyRun in which every store operation takes effect
DailyRun ==
    \E tapes \in [Range(RunKeys(kv)) -> Tapes], fetchOk \in BOOLEAN :
        /\ (RunKeys(kv) # <<>>) => fetchOk
        /\ \E r \in {dailyRun(kv, config, ItemsFrom(feed, 1), tapes, AllEffects(kv),
                                fetchOk)} : Ran(r, fetchOk)

\* one invocation of dailyRun in which a finalizeQueue is interrupted, or
\* has some of its three operations fail: only the operations in e take
\* effect
DailyRunInterrupted ==
    \E tapes \in [Range(RunKeys(kv)) -> Tapes] :
        \E whole \in {dailyRun(kv, config, ItemsFrom(feed, 1), tapes, AllEffects(kv), TRUE)} :
            \E k \in DOMAIN whole.outs, e \in (SUBSET FinalizeOps) \ {FinalizeOps} :
                /\ whole.outs[k].finalized
                /\ \E r \in {dailyRun(kv, config, ItemsFrom(feed, 1), tapes,
                                        [AllEffects(kv) EXCEPT ![k] = e], TRUE)} : Ran(r, TRUE)

\* five minutes pass
Tick ==
    /\ \E k \in DOMAIN kv.queue : kv.queue[k].nextSendAt > 0
    /\ kv' = [kv EXCEPT !.queue = [k \in DOMAIN @ |->
                 [@[k] EXCEPT !.nextSendAt = Max(0, @ - TickMinutes)]]]
    /\ lastRun' = NoRun
    /\ UNCHANGED <<feed, config, handedTo, lastSend, retryRun, breaker, deadLetters, parseRun, gmailRun, inFlight>>

\* a post appears in the feed
Publish ==
    \E i \in FeedIndex \ feed :
        /\ feed' = feed \cup {i}
        /\ lastRun' = NoRun
        /\ UNCHANGED <<kv, config, handedTo, lastSend, retryRun, breaker, deadLetters, parseRun, gmailRun, inFlight>>

\* kv.js addSubscriber
Subscribe ==
    \E e \in Emails \ kv.subscriber :
        /\ kv' = [kv EXCEPT !.subscriber = @ \cup {e}]
        /\ lastRun' = NoRun
        /\ UNCHANGED <<feed, config, handedTo, lastSend, retryRun, breaker, deadLetters, parseRun, gmailRun, inFlight>>

\* kv.js removeSubscriber
Unsubscribe ==
    \E e \in kv.subscriber :
        /\ kv' = [kv EXCEPT !.subscriber = @ \ {e}]
        /\ lastRun' = NoRun
        /\ UNCHANGED <<feed, config, handedTo, lastSend, retryRun, breaker, deadLetters, parseRun, gmailRun, inFlight>>

\* dailyRun invocations one after another over a store whose operations all
\* take effect, a feed that grows and a clock that advances
Next ==
    \/ DailyRun
    \/ Tick
    \/ Publish

Spec == Init /\ [][Next]_vars

\* the same with finalizeQueue calls that take effect only in part
FaultNext ==
    \/ DailyRun
    \/ DailyRunInterrupted
    \/ Tick
    \/ Publish

\* the store starts with the whole subscriber list
FaultInit == Init /\ kv.subscriber = Emails

FaultSpec == FaultInit /\ [][FaultNext]_vars

\* people subscribe and unsubscribe between the invocations; the feed holds
\* one post from the start
ChurnInit ==
    /\ kv \in [queue : {NoOuts}, sent : {{}}, sentUrl : {{}},
               subscriber : SubscriberSets, dlq : {<<>>}]
    /\ feed \in {{i} : i \in FeedIndex}
    /\ config \in [EMAIL_PROVIDER : Providers, MAX_POSTS_PER_RUN : {MAX_POSTS_PER_RUN}]
    /\ lastRun = NoRun
    /\ handedTo = NoneHanded
    /\ lastSend = NoneSent
    /\ retryRun = NoRetryRun
    /\ breaker = NewBreaker
    /\ deadLetters = NoDeadLetters
    /\ parseRun = NoParse
    /\ gmailRun = NoGmailRun
    /\ inFlight = NoneInFlight

ChurnNext ==
    \/ DailyRun
    \/ Tick
    \/ Subscribe
    \/ Unsubscribe

ChurnSpec == ChurnInit /\ [][ChurnNext]_vars

\* the same as Spec with config.MAX_POSTS_PER_RUN set to MaxPostsPerRun by
\* the environment, over a store that holds no subscriber or all of them,
\* with the worker-email provider
PostsInit ==
    /\ kv \in [queue : {NoOuts}, sent : {{}}, sentUrl : {{}},
               subscriber : {{}, Emails}, dlq : {<<>>}]
    /\ feed = {}
    /\ config = [EMAIL_PROVIDER |-> "worker-email", MAX_POSTS_PER_RUN |-> MaxPostsPerRun]
    /\ lastRun = NoRun
    /\ handedTo = NoneHanded
    /\ lastSend = NoneSent
    /\ retryRun = NoRetryRun
    /\ breaker = NewBreaker
    /\ deadLetters = NoDeadLetters
    /\ parseRun = NoParse
    /\ gmailRun = NoGmailRun
    /\ inFlight = NoneInFlight

PostsSpec == PostsInit /\ [][Next]_vars

\* dailyRun is invoked again and again (the scheduled handler) and the
\* clock goes on
LiveSpec == Spec /\ WF_vars(DailyRun) /\ WF_vars(Tick)

---------------------------------------------------------------------------
(* The utilities of retry.js by themselves: the newsletter flow stands     *)
(* still.                                                                  *)

IdleFlow ==
    /\ kv = [queue |-> NoOuts, sent |-> {}, sentUrl |-> {}, subscriber |-> {},
             dlq |-> <<>>]
    /\ feed = {}
    /\ config = [EMAIL_PROVIDER |-> "gmail", MAX_POSTS_PER_RUN |-> MAX_POSTS_PER_RUN]
    /\ lastRun = NoRun
    /\ handedTo = NoneHanded
    /\ lastSend = NoneSent

\* withRetry(fn, {maxAttempts}): script[i] is what fn does at its i-th call
CallWithRetry ==
    \E script \in [1..MaxScript -> Outcomes], maxAttempts \in 1..MaxScript :
        /\ retryRun = NoRetryRun
        /\ retryRun' = [script |-> script, maxAttempts |-> maxAttempts,
                        env |-> withRetry(script, maxAttempts)]
        /\ UNCHANGED <<flowVars, breaker, deadLetters, parseRun, gmailRun, inFlight>>

RetryInit == IdleFlow /\ retryRun = NoRetryRun /\ breaker = NewBreaker
             /\ deadLetters = NoDeadLetters /\ parseRun = NoParse
             /\ gmailRun = NoGmailRun /\ inFlight = NoneInFlight

\* the caller has taken the envelope
RetryDone ==
    /\ retryRun # NoRetryRun
    /\ retryRun' = NoRetryRun
    /\ UNCHANGED <<flowVars, breaker, deadLetters, parseRun, gmailRun, inFlight>>

RetryNext == CallWithRetry \/ RetryDone

RetrySpec == RetryInit /\ [][RetryNext]_vars

\* execute(fn) up to its await: an OPEN breaker whose nextAttempt is still
\* ahead rejects the call; otherwise an OPEN breaker becomes HALF_OPEN, and
\* fn is invoked
Execute(id) ==
    /\ id \notin breaker.pending
    /\ IF breaker.cb.state = "OPEN" /\ breaker.wait > 0
       THEN breaker' = [breaker EXCEPT
                !.last = [op |-> "rejected", id |-> id, from |-> "OPEN",
                          openFor |-> breaker.openFor, wasTrial |-> FALSE]]
       ELSE LET opens == breaker.cb.state = "OPEN"
                state == IF opens THEN "HALF_OPEN" ELSE breaker.cb.state
            IN  breaker' = [breaker EXCEPT
                    !.cb.state = state,
                    !.pending = @ \cup {id},
                    !.trial = IF opens THEN id ELSE @,
                    !.halfOpenCalls = IF opens THEN {id}
                                      ELSE IF state = "HALF_OPEN" THEN @ \cup {id}
                                      ELSE {},
                    !.openFor = -1,
                    !.last = [op |-> "invoked", id |-> id, from |-> breaker.cb.state,
                              openFor |-> breaker.openFor, wasTrial |-> opens]]
    /\ UNCHANGED <<flowVars, retryRun, deadLetters, parseRun, gmailRun, inFlight>>

\* the rest of execute(fn) when fn has returned: onSuccess
Succeed(id) ==
    /\ id \in breaker.pending
    /\ LET cb == onSuccess(breaker.cb)
       IN  breaker' = [breaker EXCEPT
               !.cb = cb,
               !.pending = @ \ {id},
               !.trial = IF id = @ THEN 0 ELSE @,
               !.halfOpenCalls = IF cb.state = "HALF_OPEN" THEN @ ELSE {},
               !.openFor = IF cb.state = "OPEN" THEN @ ELSE -1,
               !.streak = 0,
               !.last = [op |-> "succeeded", id |-> id, from |-> breaker.cb.state,
                         openFor |-> breaker.openFor, wasTrial |-> id = breaker.trial]]
    /\ UNCHANGED <<flowVars, retryRun, deadLetters, parseRun, gmailRun, inFlight>>

\* the rest of execute(fn) when fn has thrown: onFailure.  Only whether
\* failures has reached the threshold is ever looked at: the counter is kept
\* at the threshold once it has passed it.
Fail(id) ==
    /\ id \in breaker.pending
    /\ LET cb == onFailure(breaker.cb, BreakerThreshold)
       IN  breaker' = [breaker EXCEPT
               !.cb = [cb EXCEPT !.failures = Min(@, BreakerThreshold)],
               !.wait = IF cb.failures >= BreakerThreshold THEN BreakerResetTimeout ELSE @,
               !.pending = @ \ {id},
               !.trial = IF id = @ THEN 0 ELSE @,
               !.halfOpenCalls = IF cb.state = "HALF_OPEN" THEN @ ELSE {},
               !.openFor = IF cb.state # "OPEN" THEN -1
                           ELSE IF breaker.cb.state = "OPEN" THEN @ ELSE 0,
               !.streak = Min(@ + 1, BreakerThreshold),
               !.last = [op |-> "failed", id |-> id, from |-> breaker.cb.state,
                         openFor |-> breaker.openFor, wasTrial |-> id = breaker.trial]]
    /\ UNCHANGED <<flowVars, retryRun, deadLetters, parseRun, gmailRun, inFlight>>

\* the clock moves on while the breaker is OPEN and nextAttempt is ahead
BreakerTick ==
    /\ breaker.cb.state = "OPEN"
    /\ breaker.wait > 0
    /\ breaker' = [breaker EXCEPT
           !.wait = @ - 1,
           !.openFor = Min(@ + 1, BreakerResetTimeout),
           !.last = [NoEvent EXCEPT !.op = "tick", !.from = "OPEN"]]
    /\ UNCHANGED <<flowVars, retryRun, deadLetters, parseRun, gmailRun, inFlight>>

BreakerInit == IdleFlow /\ retryRun = NoRetryRun /\ breaker = NewBreaker
             /\ deadLetters = NoDeadLetters /\ parseRun = NoParse
             /\ gmailRun = NoGmailRun /\ inFlight = NoneInFlight

BreakerNext ==
    \/ \E id \in CallIds : Execute(id)
    \/ \E id \in CallIds : Succeed(id)
    \/ \E id \in CallIds : Fail(id)
    \/ BreakerTick

BreakerSpec == BreakerInit /\ [][BreakerNext]_vars

\* dlq.add(item, error), of an item that has never been in the queue or of
\* one retry has returned.  Keys are told apart only while their entries
\* exist: the key of an entry that is gone names a later entry
DeadLetterAddCall ==
    \E h \in deadLetters.held
              \cup [item : [id : {"a", "b"}, retryCount : {Undefined}], retries : {0}] :
        LET key == CHOOSE k \in 1..MaxDlqKeys : k \notin DOMAIN deadLetters.store
        IN  /\ Cardinality(DOMAIN deadLetters.store) < MaxDlqKeys
            /\ deadLetters' = [deadLetters EXCEPT
                    !.store = DeadLetterAdd(@, key, h.item),
                    !.retries = [k \in DOMAIN @ \cup {key} |->
                                    IF k = key THEN h.retries ELSE @[k]],
                    !.held = @ \ {h},
                    !.last = [op |-> "add", key |-> key, before |-> deadLetters.store,
                              returned |-> <<>>]]
            /\ UNCHANGED <<flowVars, retryRun, breaker, parseRun, gmailRun, inFlight>>

\* dlq.retry(key), of a key that has an entry or of one that has none; the
\* caller takes an item back when it holds no other
DeadLetterRetryCall ==
    \E key \in 1..MaxDlqKeys :
        /\ key \in DOMAIN deadLetters.store =>
                /\ deadLetters.store[key].retryCount < MaxDlqRetries
                /\ deadLetters.held = {}
        /\ \E r \in {DeadLetterRetry(deadLetters.store, key)} :
              deadLetters' = [deadLetters EXCEPT
                  !.store = r.store,
                  !.retries = [k \in DOMAIN r.store |-> @[k]],
                  !.held = IF r.returned = <<>> THEN @
                           ELSE @ \cup {[item |-> r.returned[1],
                                         retries |-> deadLetters.retries[key] + 1]},
                  !.last = [op |-> "retry", key |-> key, before |-> deadLetters.store,
                            returned |-> r.returned]]
        /\ UNCHANGED <<flowVars, retryRun, breaker, parseRun, gmailRun, inFlight>>

\* the expirationTtl of an entry runs out
DeadLetterExpire ==
    \E key \in DOMAIN deadLetters.store :
        /\ deadLetters' = [deadLetters EXCEPT
                !.store = [k \in DOMAIN @ \ {key} |-> @[k]],
                !.retries = [k \in DOMAIN @ \ {key} |-> @[k]],
                !.last = [op |-> "expire", key |-> key, before |-> deadLetters.store,
                          returned |-> <<>>]]
        /\ UNCHANGED <<flowVars, retryRun, breaker, parseRun, gmailRun, inFlight>>

DeadLetterInit == BreakerInit

DeadLetterNext ==
    \/ DeadLetterAddCall
    \/ DeadLetterRetryCall
    \/ DeadLetterExpire

DeadLetterSpec == DeadLetterInit /\ [][DeadLetterNext]_vars

\* parseFeed(content, contentType) of one document
ParseFeed ==
    /\ ~parseRun.done
    /\ parseRun' = [parseRun EXCEPT !.items = parseFeed(parseRun.doc), !.done = TRUE]
    /\ UNCHANGED <<flowVars, retryRun, breaker, deadLetters, gmailRun, inFlight>>

ParseInit ==
    /\ IdleFlow
    /\ retryRun = NoRetryRun /\ breaker = NewBreaker /\ deadLetters = NoDeadLetters
    /\ parseRun \in [doc : Docs, items : {<<>>}, done : {FALSE}]
    /\ gmailRun = NoGmailRun
    /\ inFlight = NoneInFlight

ParseSpec == ParseInit /\ [][ParseFeed]_vars

\* GmailProvider.sendBatchEmail({recipients, ...}) of one new provider
GmailSend ==
    /\ ~gmailRun.done
    /\ gmailRun' = [gmailRun EXCEPT
           !.result = GmailSendBatchEmail(gmailRun.recipients, gmailRun.tape, 0),
           !.done = TRUE]
    /\ UNCHANGED <<flowVars, retryRun, breaker, deadLetters, parseRun, inFlight>>

GmailInit ==
    /\ IdleFlow
    /\ retryRun = NoRetryRun /\ breaker = NewBreaker /\ deadLetters = NoDeadLetters
    /\ parseRun = NoParse
    /\ gmailRun \in [recipients : {[i \in 1..n |-> i] : n \in 1..MaxGmailRecipients},
                      tape : UNION {[1..n -> Transport] : n \in 1..MaxGmailTape},
                      result : {NoSend}, done : {FALSE}]
    /\ inFlight = NoneInFlight

GmailSpec == GmailInit /\ [][GmailSend]_vars

\* the writes an invocation makes for the queues it read, applied to the
\* store as it is when the invocation writes: KV.put of the queue record
\* (processor.js lines 307 and 352), finalizeQueue (lines 240, 249 and 350)
\* and dlq.add (dailyRun); a call that was told to wait writes nothing
RECURSIVE WriteBack(_, _, _)
WriteBack(store, writes, i) ==
    IF i > Len(AllQueueKeys) THEN store
    ELSE LET k == AllQueueKeys[i]
             put == IF k \notin DOMAIN writes THEN store
                    ELSE IF writes[k].wrote THEN KvPutQueue(store, k, writes[k].queue)
                    ELSE IF writes[k].finalized
                    THEN finalizeQueue(store, k, writes[k].queue, FinalizeOps)
                    ELSE store
         IN  WriteBack(IF k \in DOMAIN writes /\ writes[k].dead THEN DlqAdd(put, k) ELSE put,
                       writes, i + 1)

\* an invocation of dailyRun reads the queues (getQueuesByStatus, lines
\* 20-41 of dailyRun) and sends; what it is to write is kept until it writes
BeginRun ==
    \E n \in (1..MaxInFlight) \ DOMAIN inFlight, tapes \in [Range(RunKeys(kv)) -> Tapes] :
        /\ RunKeys(kv) # <<>>
        /\ \E r \in {dailyRun(kv, config, ItemsFrom(feed, 1), tapes, AllEffects(kv), TRUE)} :
              inFlight' = [m \in DOMAIN inFlight \cup {n} |->
                             IF m = n
                             THEN [k \in DOMAIN r.outs |->
                                     [wrote |-> r.outs[k].wrote,
                                      finalized |-> r.outs[k].finalized,
                                      queue |-> r.outs[k].queue,
                                      dead |-> k \in r.dead]]
                             ELSE inFlight[m]]
        /\ UNCHANGED <<flowVars, retryRun, breaker, deadLetters, parseRun, gmailRun>>

\* an invocation in flight writes and returns
EndRun ==
    \E n \in DOMAIN inFlight :
        /\ kv' = WriteBack(kv, inFlight[n], 1)
        /\ inFlight' = [m \in DOMAIN inFlight \ {n} |-> inFlight[m]]
        /\ lastRun' = NoRun
        /\ UNCHANGED <<feed, config, handedTo, lastSend, retryRun, breaker, deadLetters,
                       parseRun, gmailRun>>

\* invocations of dailyRun that overlap: the scheduled handler and the admin
\* route take no lock, so an invocation may read the queues while another
\* that read them earlier has not yet written.  The store starts with the
\* whole subscriber list and the feed with one post.
OverlapInit ==
    /\ ChurnInit
    /\ kv.subscriber = Emails
    /\ feed = {1}
    /\ config.EMAIL_PROVIDER = "worker-email"

\* an invocation of dailyRun that finds no queue to process: discovery
\* (its reads and its write are taken as one step)
Discover ==
    /\ RunKeys(kv) = <<>>
    /\ kv' = dailyRun(kv, config, ItemsFrom(feed, 1), AllEffects(kv), AllEffects(kv),
                      TRUE).store
    /\ lastRun' = NoRun
    /\ UNCHANGED <<feed, config, handedTo, lastSend, retryRun, breaker, deadLetters,
                   parseRun, gmailRun, inFlight>>

OverlapNext ==
    \/ Discover
    \/ BeginRun
    \/ EndRun
    \/ Tick

OverlapSpec == OverlapInit /\ [][OverlapNext]_vars

---------------------------------------------------------------------------
(* Properties.  They are stated over the invocation that has just          *)
(* returned: lastRun.pre[k] is the queue record a processQueueBatch call   *)
(* was given, lastRun.outs[k] what the call did, kv the store it left.     *)

Calls == DOMAIN lastRun.outs

StatusRank(status) ==
    CASE status = "pending" -> 0
      [] status = "in-progress" -> 1
      [] OTHER -> 2

\* the keys of the two sent records finalizeQueue writes for a queue
FinalPostId(q) ==
    IF postIdFromNormalizedUrl(normalizeUrl(q.post.url)) # <<>>
    THEN postIdFromNormalizedUrl(normalizeUrl(q.post.url))
    ELSE q.post.slug

FinalUrlKey(q) == SentUrlKey(normalizeUrl(q.post.url))

BothRecords(store, q) == FinalPostId(q) \in store.sent /\ FinalUrlKey(q) \in store.sentUrl

\* the next run finds the queue: it is stored as in-progress or pending
Resumable(k) ==
    /\ k \in DOMAIN kv.queue
    /\ kv.queue[k].status \in {"in-progress", "pending"}

\* C1: over processQueueBatch calls made one after another on a queue, the
\* length of sentTo never decreases and the status never moves backward
\* (never in-progress to pending, never completed to another status), in the
\* record the call holds when it returns and in the record it leaves stored.
C1_QueueMonotonic ==
    \A k \in Calls :
        LET before == lastRun.pre[k]
            after == lastRun.outs[k].queue
        IN  /\ Len(after.sentTo) >= Len(before.sentTo)
            /\ StatusRank(after.status) >= StatusRank(before.status)
            /\ k \in DOMAIN kv.queue =>
                 /\ Len(kv.queue[k].sentTo) >= Len(before.sentTo)
                 /\ StatusRank(kv.queue[k].status) >= StatusRank(before.status)

\* a call on a queue already in progress, part of it sent, whose send failed
C1_FailedBatchOfQueueInProgress ==
    \E k \in Calls :
        /\ lastRun.pre[k].status = "in-progress"
        /\ Len(lastRun.pre[k].sentTo) > 0
        /\ lastRun.outs[k].handed
        /\ ~lastRun.outs[k].result.success
        /\ k \in DOMAIN kv.queue

\* the post of queue key k is finalized: no queue, both sent records
Finalized(k) ==
    /\ k \notin DOMAIN kv.queue
    /\ k \in kv.sent
    /\ \E i \in FeedIndex :
          /\ ItemPostId(FeedItems[i]) = k
          /\ SentUrlKey(normalizeUrl(ItemNormUrl(FeedItems[i]))) \in kv.sentUrl

\* C2: with dailyRun invoked again and again, the clock advancing and a
\* store whose operations succeed, every queue in the store is eventually
\* finalized (key deleted, both sent records written) whatever the provider
\* returns for each batch.
C2_EveryQueueFinalized ==
    \A k \in Range(AllQueueKeys) : (k \in DOMAIN kv.queue) ~> Finalized(k)

\* the provider's result for the batch reports totalSent = 0
ZeroSent(k) == lastRun.outs[k].handed /\ lastRun.outs[k].sendResult.totalSent = Num(0)

\* C3 (as amended): when the provider's result reports totalSent = 0 the
\* call does not return success and batchRetryCount is incremented; when the
\* increment reaches 3 the batch is moved to failedRecipients and sentTo and
\* the count is reset to 0.
C3_ZeroSentIsFailure ==
    \A k \in Calls :
        LET before == lastRun.pre[k]
            o == lastRun.outs[k]
            count == JsOrZero(before.batchRetryCount) + 1
        IN  ZeroSent(k) =>
              /\ ~o.result.success
              /\ k \in DOMAIN kv.queue /\ kv.queue[k] = o.queue
              /\ IF count < MaxBatchRetries
                 THEN /\ o.queue.batchRetryCount = Num(count)
                      /\ o.queue.sentTo = before.sentTo
                 ELSE /\ o.queue.batchRetryCount = Num(0)
                      /\ o.queue.sentTo = before.sentTo \o o.batch
                      /\ o.queue.failedRecipients = before.failedRecipients \o o.batch

\* a result with totalSent = 0 for a batch that had failed twice before
C3_ThirdZeroSent ==
    \E k \in Calls : ZeroSent(k) /\ lastRun.pre[k].batchRetryCount = Num(2)

\* C3 (as stated): when the provider's result reports totalSent = 0 the call
\* does not return success and batchRetryCount is incremented rather than
\* reset to 0.
C3_ZeroSentIncrements ==
    \A k \in Calls :
        ZeroSent(k) =>
          /\ ~lastRun.outs[k].result.success
          /\ lastRun.outs[k].queue.batchRetryCount =
                Num(JsOrZero(lastRun.pre[k].batchRetryCount) + 1)

\* C4: alreadySent(postId, normalizedUrl) is true if and only if the sent
\* record kept by post id and the one kept by normalized URL both exist; it
\* is false when exactly one exists; and the check writes nothing: the
\* discovery that makes it leaves the sent records as they were.
C4_AlreadySentIffBoth ==
    /\ \A i \in FeedIndex :
          LET postId == ItemPostId(FeedItems[i])
              normUrl == ItemNormUrl(FeedItems[i])
              byId == postId \in kv.sent
              byUrl == SentUrlKey(normUrl) \in kv.sentUrl
          IN  /\ alreadySent(kv, postId, normUrl) <=> (byId /\ byUrl)
              /\ (byId # byUrl) => ~alreadySent(kv, postId, normUrl)
    /\ LET after == discoverFromRssAndQueue(kv, config, ItemsFrom(feed, 1), TRUE).store
       IN  after.sent = kv.sent /\ after.sentUrl = kv.sentUrl

\* exactly one of the two sent records of a post of the feed exists
C4_OneRecordOnly ==
    \E i \in feed :
        (ItemPostId(FeedItems[i]) \in kv.sent)
            # (SentUrlKey(ItemNormUrl(FeedItems[i])) \in kv.sentUrl)

\* the calls of the last run whose finalizeQueue took effect only in part
PartialFinalizes ==
    {k \in Calls : lastRun.outs[k].finalized /\ lastRun.outs[k].effects # FinalizeOps}

\* every sent record the finalizeQueue of call k did not write was missing
\* from the store before the call
UnwrittenWereMissing(k) ==
    /\ "putSent" \notin lastRun.outs[k].effects =>
          FinalPostId(lastRun.outs[k].queue) \notin lastRun.had.sent
    /\ "putSentUrl" \notin lastRun.outs[k].effects =>
          FinalUrlKey(lastRun.outs[k].queue) \notin lastRun.had.sentUrl

\* C5 (as amended): after a finalizeQueue of which only some operations took
\* effect, either the queue key still exists and the next run resumes it,
\* or, provided no earlier finalizeQueue had already written a record this
\* one failed to write, alreadySent is false for the post, so that
\* discovery queues it again.
C5_PartialFinalizeRedoes ==
    \A k \in PartialFinalizes :
        IF "delete" \notin lastRun.outs[k].effects
        THEN Resumable(k)
        ELSE UnwrittenWereMissing(k) =>
               ~alreadySent(kv, lastRun.pre[k].post.slug, lastRun.pre[k].post.url)

\* a finalizeQueue that wrote the record kept by post id and deleted the
\* queue, but did not write the record kept by URL
C5_DeletedWithOneRecord ==
    \E k \in PartialFinalizes :
        /\ lastRun.outs[k].effects = {"putSent", "delete"}
        /\ k \notin DOMAIN kv.queue
        /\ FinalPostId(lastRun.outs[k].queue) \in kv.sent
        /\ FinalUrlKey(lastRun.outs[k].queue) \notin lastRun.had.sentUrl

\* C5 (as stated): after a finalizeQueue of which only some operations took
\* effect, either the queue key still exists and is resumed, or alreadySent
\* is false for the post.
C5_PartialFinalizeNeverSkips ==
    \A k \in PartialFinalizes :
        \/ Resumable(k)
        \/ ~alreadySent(kv, lastRun.pre[k].post.slug, lastRun.pre[k].post.url)

\* the store held a queue in progress or pending when the last run began
FoundWork == \E k \in DOMAIN lastRun.found : lastRun.found[k] \in {"in-progress", "pending"}

\* the queue keys the last run added to the store
NewKeys == IF lastRun.branch = "none" THEN {} ELSE DOMAIN kv.queue \ DOMAIN lastRun.found

\* C6: dailyRun runs discovery and creates queue records only in an
\* invocation that found no queue in progress and no pending queue; when
\* there is such a queue the invocation processes the existing queues and
\* creates none.
C6_DiscoveryOnlyWhenIdle ==
    /\ (NewKeys # {} \/ lastRun.branch = "discover") => ~FoundWork
    /\ FoundWork =>
          /\ lastRun.branch \in {"in-progress", "pending"}
          /\ Calls # {}
          /\ \A k \in Calls : lastRun.found[k] = lastRun.branch
          /\ NewKeys = {}
          /\ lastRun.created = {}

\* a run that found a pending queue while the feed held another post that
\* had not been sent
C6_PendingQueueAndUnsentPost ==
    /\ lastRun.branch = "pending"
    /\ \E i \in feed :
          /\ ItemPostId(FeedItems[i]) \notin DOMAIN lastRun.found
          /\ ~alreadySent(kv, ItemPostId(FeedItems[i]), ItemNormUrl(FeedItems[i]))

\* the call handed a batch to the provider, the transport accepted every
\* message at the first attempt and the provider reported success
FullSuccess(k) ==
    /\ lastRun.outs[k].handed
    /\ lastRun.outs[k].env.success
    /\ lastRun.outs[k].env.calls = 1
    /\ lastRun.outs[k].sendResult.delivered = lastRun.outs[k].batch

\* C7: when the provider fully succeeds on a batch, the call appends that
\* batch to sentTo; as long as subscribers remain the stored queue is then
\* in-progress with sentTo the first k*B subscribers, and once none remain
\* the queue key is deleted and both sent records exist: ceil(N/B) sending
\* calls deliver to N subscribers in batches of B.
C7_FullSuccessAdvances ==
    \A k \in Calls :
        LET before == lastRun.pre[k]
            sentTo == before.sentTo \o lastRun.outs[k].batch
        IN  FullSuccess(k) =>
              IF Len(sentTo) < Len(before.subscribers)
              THEN /\ k \in DOMAIN kv.queue
                   /\ kv.queue[k].status = "in-progress"
                   /\ kv.queue[k].sentTo = sentTo
                   /\ sentTo = SubSeq(before.subscribers, 1, Len(sentTo))
              ELSE /\ k \notin DOMAIN kv.queue
                   /\ BothRecords(kv, before)

\* C8: once a queue has been finalized with both sent records written, a
\* later discovery over a feed that still holds the post creates no queue
\* for it.
C8_FinalizedPostNotRequeued ==
    \A k \in lastRun.created : ~BothRecords(kv, kv.queue[k])

\* C9: after every processQueueBatch call that returns success with stats,
\* stats.sent + stats.remaining = stats.total and stats.total is
\* subscribers.length.
C9_BatchAccounting ==
    \A k \in Calls :
        LET result == lastRun.outs[k].result
        IN  (result.success /\ result.stats.present) =>
              /\ result.stats.sent + result.stats.remaining = result.stats.total
              /\ result.stats.total = Len(lastRun.pre[k].subscribers)
              /\ result.stats.total = Len(lastRun.outs[k].queue.subscribers)

\* a successful call on a queue of which an earlier batch was given up
C9_StatsAfterFailedRecipients ==
    \E k \in Calls :
        /\ lastRun.outs[k].result.success
        /\ lastRun.outs[k].result.stats.present
        /\ lastRun.outs[k].result.stats.failed > 0

\* C10: no queue record whose status is completed is ever written to the
\* store: a queue that reaches completed is deleted by finalizeQueue.
C10_CompletedNeverStored ==
    /\ \A k \in DOMAIN kv.queue : kv.queue[k].status # "completed"
    /\ \A k \in Calls :
          lastRun.outs[k].queue.status = "completed" => k \notin DOMAIN kv.queue

\* a call whose queue reached completed
C10_QueueCompleted ==
    \E k \in Calls :
        /\ lastRun.outs[k].queue.status = "completed"
        /\ lastRun.outs[k].finalized
        /\ k \notin DOMAIN kv.queue

\* C11: a stored queue has status pending only while no batch send has
\* been attempted for it; once a batch has been handed to the send
\* operation, whether the send succeeded or failed, the stored status is
\* in-progress.
C11_PendingMeansNeverAttempted ==
    \A k \in DOMAIN kv.queue :
        kv.queue[k].status = "pending" => handedTo[k] = {}

\* C12: processQueueBatch never changes a queue's subscribers or its post,
\* and the recipients of every batch come from the subscribers stored in the
\* queue when it was created: subscribing or unsubscribing afterwards does
\* not change who is sent the post.
C12_AudienceFrozen ==
    /\ \A k \in Calls :
          LET before == lastRun.pre[k]
              o == lastRun.outs[k]
          IN  /\ o.queue.subscribers = before.subscribers
              /\ o.queue.post = before.post
              /\ k \in DOMAIN kv.queue =>
                    /\ kv.queue[k].subscribers = before.subscribers
                    /\ kv.queue[k].post = before.post
              /\ o.handed =>
                    o.batch = Slice(before.subscribers, Len(before.sentTo),
                                    Len(before.sentTo) + BATCH_SIZE)
    /\ \A k \in DOMAIN kv.queue : handedTo[k] \subseteq Range(kv.queue[k].subscribers)

\* a batch handed to the send operation holds an address that has been
\* unsubscribed since the queue was created, while an address subscribed
\* since then is not in the queue
C12_SentToUnsubscribed ==
    \E k \in Calls :
        /\ lastRun.outs[k].handed
        /\ \E e \in Range(lastRun.outs[k].batch) : e \notin kv.subscriber
        /\ \E e \in kv.subscriber : e \notin Range(lastRun.pre[k].subscribers)

IsPrefix(s, t) == Len(s) <= Len(t) /\ s = SubSeq(t, 1, Len(s))

\* C13: in every state of a queue sentTo is a prefix of subscribers (the
\* same addresses in the same order), so that it is never longer than
\* subscribers, and each batch sent is the slice of subscribers from index
\* sentTo.length to sentTo.length + batchSize.
C13_SentToIsPrefix ==
    /\ \A k \in DOMAIN kv.queue : IsPrefix(kv.queue[k].sentTo, kv.queue[k].subscribers)
    /\ \A k \in Calls :
          LET before == lastRun.pre[k]
              o == lastRun.outs[k]
          IN  /\ IsPrefix(o.queue.sentTo, o.queue.subscribers)
              /\ o.handed =>
                    /\ o.batch # <<>>
                    /\ o.batch = SubSeq(before.subscribers, Len(before.sentTo) + 1,
                                        Min(Len(before.sentTo) + BATCH_SIZE,
                                            Len(before.subscribers)))

\* the second batch of a queue has been sent and added to sentTo
C13_SecondBatchSent ==
    \E k \in Calls :
        /\ lastRun.outs[k].handed
        /\ Len(lastRun.pre[k].sentTo) > 0
        /\ Len(lastRun.outs[k].queue.sentTo) > Len(lastRun.pre[k].sentTo)

\* C14: when a queue with at least one subscriber is finalized, every
\* subscriber of its snapshot has been in a batch handed to the send
\* operation (EmailFactory.sendNewsletter) before the finalize.
C14_FinalizedMeansAllAttempted ==
    \A k \in Calls :
        (lastRun.outs[k].finalized /\ Len(lastRun.pre[k].subscribers) >= 1) =>
            Range(lastRun.pre[k].subscribers) \subseteq handedTo[k]

\* a queue of several batches finalized by a call that sent nothing itself:
\* its last batch had been given up after three failures
C14_FinalizedAfterGivingUp ==
    \E k \in Calls :
        /\ lastRun.outs[k].finalized
        /\ ~lastRun.outs[k].handed
        /\ Len(lastRun.pre[k].subscribers) > BATCH_SIZE
        /\ Len(lastRun.pre[k].failedRecipients) > 0

\* the calls the operation received in the last withRetry
CallsMade == 1..retryRun.env.calls

\* C15: withRetry invokes the operation at most maxAttempts times, whatever
\* it throws, and does not invoke it again after an attempt has succeeded.
C15_AtMostMaxAttempts ==
    retryRun # NoRetryRun =>
        /\ retryRun.env.calls >= 1
        /\ retryRun.env.calls <= retryRun.maxAttempts
        /\ \A i \in CallsMade : retryRun.script[i] = "ok" => i = retryRun.env.calls

\* three retryable errors in a row with maxAttempts = 2, and a success that
\* later attempts would have followed
C15_RetryableUntilTheBound ==
    /\ retryRun.maxAttempts = 2
    /\ \A i \in 1..MaxScript : isRetryableError(retryRun.script[i])
    /\ retryRun.env.calls = 2

\* C16: withRetry never throws: whatever the operation throws, it returns an
\* envelope {success, result or error, attempts}.
C16_NeverThrows == ~retryRun.env.threw

\* C17: when the operation throws an error that is not retryable, withRetry
\* stops at once and returns a failure envelope carrying that error; a
\* retryable error with attempts left leads to another invocation.  (The
\* errors are Error objects; for a thrown undefined or null see C16.)
C17_NonRetryableStopsAtOnce ==
    \A i \in CallsMade :
        LET thrown == retryRun.script[i]
        IN  (thrown # "ok" /\ ~Thrown(thrown).nullish) =>
              IF isRetryableError(thrown) /\ i < retryRun.maxAttempts
              THEN retryRun.env.calls > i
              ELSE /\ retryRun.env.calls = i
                   /\ ~retryRun.env.success
                   /\ ~retryRun.env.threw
                   /\ retryRun.env.error = thrown
                   /\ retryRun.env.attempts = retryRun.maxAttempts

\* an error retryable by its status is retried, then an error that is not
\* retryable ends the call with an attempt left
C17_StatusRetriedThenAbort ==
    /\ retryRun.maxAttempts = 3
    /\ retryRun.script[1] = "HTTP 503"
    /\ retryRun.script[2] = "550 rejected"
    /\ retryRun.script[3] = "ok"
    /\ retryRun.env.calls = 2

\* C18: after failureThreshold consecutive failed calls the breaker is
\* OPEN, and every execute call made before resetTimeout has elapsed since
\* it opened is rejected without the wrapped function being invoked.
C18_OpensAndRejects ==
    /\ (breaker.last.op = "failed" /\ breaker.streak >= BreakerThreshold) =>
          breaker.cb.state = "OPEN"
    /\ ( /\ breaker.last.op \in {"invoked", "rejected"}
         /\ breaker.last.openFor >= 0
         /\ breaker.last.openFor < BreakerResetTimeout ) =>
          /\ breaker.last.op = "rejected"
          /\ breaker.last.id \notin breaker.pending
          /\ breaker.cb.state = "OPEN"

\* an execute call rejected some time after the breaker opened
C18_RejectedWhileOpen ==
    /\ breaker.last.op = "rejected"
    /\ breaker.last.openFor > 0
    /\ breaker.streak >= BreakerThreshold

\* C19: the first execute call made on an OPEN breaker after resetTimeout
\* has elapsed moves it to HALF_OPEN and invokes the wrapped function; if
\* that trial call succeeds the state becomes CLOSED, and if it fails the
\* state becomes OPEN again with a new resetTimeout window.
C19_TrialDecides ==
    /\ (breaker.last.op = "invoked" /\ breaker.last.from = "OPEN") =>
          /\ breaker.cb.state = "HALF_OPEN"
          /\ breaker.last.id \in breaker.pending
    /\ (breaker.last.op = "succeeded" /\ breaker.last.wasTrial) =>
          breaker.cb.state = "CLOSED"
    /\ (breaker.last.op = "failed" /\ breaker.last.wasTrial) =>
          /\ breaker.cb.state = "OPEN"
          /\ breaker.wait = BreakerResetTimeout

\* C20: while the breaker is HALF_OPEN only one trial call is permitted: of
\* the execute calls pending at the same time, at most one has had the
\* wrapped function invoked before the trial's outcome set the state to
\* CLOSED or OPEN.
C20_OneTrialOnly ==
    breaker.cb.state = "HALF_OPEN" =>
        Cardinality(breaker.halfOpenCalls \cap breaker.pending) <= 1

\* C21: a successful call while the breaker is CLOSED or HALF_OPEN resets
\* the failure counter to 0, so the breaker opens only after failureThreshold
\* failures with no success between them; whenever the state is CLOSED the
\* failure counter is below failureThreshold.
C21_SuccessResetsCounter ==
    /\ (breaker.last.op = "succeeded" /\ breaker.last.from \in {"CLOSED", "HALF_OPEN"}) =>
          breaker.cb.failures = 0
    /\ (breaker.last.op = "failed" /\ breaker.last.from # "OPEN"
        /\ breaker.cb.state = "OPEN") =>
          breaker.streak >= BreakerThreshold
    /\ breaker.cb.state = "CLOSED" => breaker.cb.failures < BreakerThreshold
    /\ breaker.cb.state = "CLOSED" => breaker.cb.failures = breaker.streak

\* a success closes a HALF_OPEN breaker whose counter had reached the
\* threshold
C21_SuccessAfterThreshold ==
    /\ breaker.last.op = "succeeded"
    /\ breaker.last.from = "HALF_OPEN"
    /\ breaker.cb.state = "CLOSED"
    /\ breaker.cb.failures = 0

\* C22: dailyRun adds a dead-letter entry for a queue only after the retry
\* budget of its batch is exhausted: a failed batch whose send stopped before
\* all its attempts were made, or that a later invocation is to send again
\* (batchRetryCount below 3), adds no dead-letter entry.
C22_DeadLetterOnlyWhenExhausted ==
    \A k \in lastRun.dead :
        /\ lastRun.outs[k].env.calls = SendMaxAttempts
        /\ JsOrZero(lastRun.pre[k].batchRetryCount) + 1 >= MaxBatchRetries
        /\ lastRun.outs[k].queue.nextSendAt = 0

\* C23: DeadLetterQueue.retry(key) on an existing entry deletes that entry
\* and returns its item with retryCount increased by 1, so an item added
\* again after k retries is stored with retryCount k; on a key that is not
\* in the store it returns null and leaves the store unchanged.
C23_RetryReturnsItem ==
    LET last == deadLetters.last
    IN  /\ (last.op = "retry" /\ last.key \in DOMAIN last.before) =>
              /\ last.key \notin DOMAIN deadLetters.store
              /\ \A k \in DOMAIN last.before \ {last.key} :
                    k \in DOMAIN deadLetters.store
                    /\ deadLetters.store[k] = last.before[k]
              /\ Len(last.returned) = 1
              /\ last.returned[1].id = last.before[last.key].item.id
              /\ last.returned[1].retryCount =
                    Num(JsOrZero(last.before[last.key].item.retryCount) + 1)
        /\ \A k \in DOMAIN deadLetters.store :
              deadLetters.store[k].retryCount = deadLetters.retries[k]
        /\ (last.op = "retry" /\ last.key \notin DOMAIN last.before) =>
              /\ last.returned = <<>>
              /\ deadLetters.store = last.before

\* an item is added again after it has been retried twice, while the store
\* holds another entry
C23_AddedAgainAfterRetries ==
    /\ deadLetters.last.op = "add"
    /\ deadLetters.retries[deadLetters.last.key] = MaxDlqRetries
    /\ deadLetters.store[deadLetters.last.key].retryCount = MaxDlqRetries
    /\ Cardinality(DOMAIN deadLetters.store) > 1

\* the queue the invocation that has just returned created for key k is in
\* the store as discovery writes it, for an item that alreadySent did not
\* report as sent in the store the invocation found
CreatedAsNew(k) ==
    LET before == [kv EXCEPT !.sent = lastRun.had.sent, !.sentUrl = lastRun.had.sentUrl]
    IN  /\ k \in DOMAIN kv.queue
        /\ kv.queue[k].status = "pending"
        /\ kv.queue[k].sentTo = <<>>
        /\ kv.queue[k].subscribers = lastRun.subscribers
        /\ \E i \in 1..Len(lastRun.items) :
              /\ ItemPostId(lastRun.items[i]) = k
              /\ ~alreadySent(before, k, ItemNormUrl(lastRun.items[i]))

\* C24 (as stated): a discovery run creates queues only for feed items for
\* which alreadySent is false, at most MAX_POSTS_PER_RUN per invocation, each
\* with status pending, an empty sentTo and the subscriber list read in that
\* run; with one new item and no sent records exactly one such queue is
\* created.
C24_OneQueuePerNewItem ==
    /\ \A k \in lastRun.created : CreatedAsNew(k)
    /\ Cardinality(lastRun.created) <= config.MAX_POSTS_PER_RUN
    /\ (/\ lastRun.branch = "discover" /\ lastRun.fetched
        /\ Len(lastRun.items) = 1
        /\ lastRun.had.sent = {} /\ lastRun.had.sentUrl = {})
       => Cardinality(lastRun.created) = 1

\* C24 (amended): the same, the last part for a store that holds at least
\* one subscriber: with no subscriber discovery returns before it reads the
\* feed and creates no queue.
C24_OneQueuePerNewItemWithSubscribers ==
    /\ \A k \in lastRun.created : CreatedAsNew(k)
    /\ Cardinality(lastRun.created) <= config.MAX_POSTS_PER_RUN
    /\ lastRun.created # {} => lastRun.branch = "discover"
    /\ (/\ lastRun.branch = "discover" /\ lastRun.fetched
        /\ Len(lastRun.items) = 1
        /\ lastRun.had.sent = {} /\ lastRun.had.sentUrl = {}
        /\ Len(lastRun.subscribers) > 0)
       => Cardinality(lastRun.created) = 1
    /\ (lastRun.branch = "discover" /\ Len(lastRun.subscribers) = 0) => lastRun.created = {}

\* discovery has created two queues at once while the store held the sent
\* records of no post
C24_TwoQueuesCreated ==
    /\ Cardinality(lastRun.created) = 2
    /\ lastRun.had.sent = {}
    /\ \A k \in lastRun.created : CreatedAsNew(k)

\* C25: queues are processed one full post at a time: while the queue of one
\* post has had a batch sent and is not yet finalized, no batch of a queue
\* for a different post is sent.
C25_OnePostAtATime ==
    \A j \in DOMAIN lastRun.outs, k \in DOMAIN kv.queue :
        (/\ j # k
         /\ lastRun.outs[j].handed
         /\ lastRun.outs[j].result.success)
        => Len(kv.queue[k].sentTo) = 0

\* the items are the first occurrences in all, one for each URL in it, in the
\* order of all
FirstOccurrences(items, all) ==
    /\ \A i, j \in 1..Len(items) : i # j => items[i].url # items[j].url
    /\ {items[i].url : i \in 1..Len(items)} = {all[j].url : j \in 1..Len(all)}
    /\ \E at \in [1..Len(items) -> 1..Len(all)] :
          /\ \A i \in 1..Len(items) :
                /\ all[at[i]] = items[i]
                /\ \A m \in 1..(at[i] - 1) : all[m].url # items[i].url
          /\ \A i, j \in 1..Len(items) : i < j => at[i] < at[j]

\* C26 (as stated): for an XML feed in which the same item URL appears more
\* than once, within one format block or across RSS 2.0, Atom and RSS
\* 1.0/RDF blocks, parseFeed returns exactly one item per distinct normalized
\* URL, keeping the first occurrence in extractor order.
C26_OneItemPerUrl ==
    parseRun.done => FirstOccurrences(parseRun.items, ExtractedItems(parseRun.doc))

\* C26 (amended): the same for an XML feed served with a content type that
\* does not contain 'json'; with one that does, parseFeed gives the content
\* to the JSON parser and returns no item.
C26_OneItemPerUrlOfXmlType ==
    /\ (parseRun.done /\ ~parseRun.doc.json) =>
          FirstOccurrences(parseRun.items, ExtractedItems(parseRun.doc))
    /\ (parseRun.done /\ parseRun.doc.json) => parseRun.items = <<>>

\* one item is returned for a URL that two blocks write differently and two
\* extractors find
C26_DuplicatesAcrossExtractors ==
    /\ parseRun.done
    /\ Len(parseRun.items) = 1
    /\ Len(ExtractedItems(parseRun.doc)) = 3
    /\ \E j \in 1..3 : ExtractedItems(parseRun.doc)[j].guid # parseRun.items[1].guid

\* C27: when a batch send fails after withRetry gives up and the incremented
\* batchRetryCount is below 3, processQueueBatch stores the queue with sentTo
\* unchanged and nextSendAt set 5 minutes after the current time, and the
\* next eligible call sends the same slice of subscribers again.
C27_FailedBatchIsSentAgain ==
    \A k \in DOMAIN lastRun.outs :
        LET out == lastRun.outs[k]
            pre == lastRun.pre[k]
        IN  /\ (/\ out.handed /\ ~out.env.success
                /\ JsOrZero(pre.batchRetryCount) + 1 < MaxBatchRetries) =>
                  /\ k \in DOMAIN kv.queue
                  /\ kv.queue[k].sentTo = pre.sentTo
                  /\ kv.queue[k].nextSendAt = 5
                  /\ kv.queue[k].batchRetryCount = Num(JsOrZero(pre.batchRetryCount) + 1)
            /\ (lastRun.prev[k].outcome = "retry" /\ pre.nextSendAt = 0) =>
                  /\ out.handed
                  /\ out.batch = lastRun.prev[k].batch
                  /\ Len(pre.sentTo) = lastRun.prev[k].offset

\* the second batch of a queue is handed to the provider a second time
C27_SecondBatchSentAgain ==
    \E k \in DOMAIN lastRun.outs :
        /\ lastRun.prev[k].outcome = "retry"
        /\ lastRun.prev[k].offset > 0
        /\ lastRun.outs[k].handed
        /\ lastRun.outs[k].batch = lastRun.prev[k].batch

\* C28: when a batch send fails and the incremented batchRetryCount reaches
\* 3, the whole batch is appended to both sentTo and failedRecipients,
\* batchRetryCount is reset to 0, and the next sending call takes the slice
\* of subscribers that follows that batch.
C28_GivenUpBatchIsSkipped ==
    \A k \in DOMAIN lastRun.outs :
        LET out == lastRun.outs[k]
            pre == lastRun.pre[k]
            prev == lastRun.prev[k]
            from == prev.offset + Len(prev.batch)
        IN  /\ (/\ out.handed /\ ~out.env.success
                /\ JsOrZero(pre.batchRetryCount) + 1 >= MaxBatchRetries) =>
                  /\ k \in DOMAIN kv.queue
                  /\ kv.queue[k].sentTo = pre.sentTo \o out.batch
                  /\ kv.queue[k].failedRecipients = pre.failedRecipients \o out.batch
                  /\ kv.queue[k].batchRetryCount = Num(0)
            /\ (prev.outcome = "gaveUp" /\ out.handed) =>
                  /\ Len(out.batch) > 0
                  /\ out.batch = SubSeq(pre.subscribers, from + 1,
                                        Min(from + BATCH_SIZE, Len(pre.subscribers)))

\* a batch is handed to the provider after the batch before it was given up
C28_NextBatchAfterGivingUp ==
    \E k \in DOMAIN lastRun.outs :
        /\ lastRun.prev[k].outcome = "gaveUp"
        /\ lastRun.outs[k].handed
        /\ lastRun.outs[k].batch # lastRun.prev[k].batch

\* C29: when processQueueBatch is called with the current time before
\* nextSendAt, it returns success with the waiting flag, makes no call to
\* the email provider and writes nothing to the store: the queue record is
\* unchanged.
C29_WaitingCallChangesNothing ==
    /\ \A k \in DOMAIN lastRun.outs :
          lastRun.pre[k].nextSendAt > 0 =>
              /\ lastRun.outs[k].result.success
              /\ lastRun.outs[k].result.waiting
              /\ ~lastRun.outs[k].handed
              /\ lastRun.outs[k].env.calls = 0
              /\ ~lastRun.outs[k].wrote
              /\ ~lastRun.outs[k].finalized
              /\ k \notin lastRun.dead
              /\ k \in DOMAIN kv.queue
              /\ kv.queue[k] = lastRun.pre[k]
    /\ (lastRun.branch # "none"
        /\ \A k \in DOMAIN lastRun.outs : lastRun.pre[k].nextSendAt > 0) =>
          /\ kv.sent = lastRun.had.sent
          /\ kv.sentUrl = lastRun.had.sentUrl
          /\ lastSend = lastRun.prev \/ lastRun.branch = "discover"

\* a call made before nextSendAt for a queue that has had a batch sent
C29_CalledTooEarly ==
    \E k \in DOMAIN lastRun.outs :
        /\ lastRun.pre[k].nextSendAt > 0
        /\ Len(lastRun.pre[k].sentTo) > 0
        /\ lastRun.outs[k].result.waiting

\* C30: GmailProvider.sendBatchEmail returns totalSent equal to the number
\* of recipients in the sub-batches whose send succeeded and totalFailed
\* equal to the number in those that failed, so totalSent + totalFailed is
\* the number of recipients in the sub-batches processed, and success is
\* true exactly when no sub-batch failed.
C30_GmailCountsRecipients ==
    \A k \in DOMAIN lastRun.outs :
        (config.EMAIL_PROVIDER = "gmail" /\ lastRun.outs[k].handed) =>
            LET r == lastRun.outs[k].sendResult
                sent == Len(r.delivered)
                failed == Len(lastRun.outs[k].batch) - sent
            IN  /\ r.totalSent = Num(sent)
                /\ r.totalFailed = Num(failed)
                /\ JsAdd(r.totalSent, r.totalFailed) = Num(Len(lastRun.outs[k].batch))
                /\ r.success <=> failed = 0

\* C31: in GmailProvider.sendBatchEmail each sub-batch whose send fails on
\* all its retry attempts is counted as a failure by the provider's circuit
\* breaker, so after 3 consecutive failed sub-batches the breaker is OPEN and
\* the remaining sub-batches are not sent.
C31_BreakerStopsTheCall ==
    gmailRun.done =>
        \A i \in 1..(Len(gmailRun.result.details) - 2) :
            (\A j \in i..(i + 2) : ~gmailRun.result.details[j]) =>
                /\ gmailRun.result.circuitBreakerState = "OPEN"
                /\ Len(gmailRun.result.details) = i + 2

\* C32: the attempts field of the envelope withRetry returns equals the
\* number of times the operation was invoked, on success and on failure,
\* including a failure that stopped early on a non-retryable error.
C32_AttemptsAreCalls ==
    (retryRun # NoRetryRun /\ ~retryRun.env.threw) =>
        retryRun.env.attempts = retryRun.env.calls

\* C33: with invocations that overlap and read the same queue, the length
\* of sentTo stored for a queue never decreases: no write replaces the queue
\* record with one that has fewer attempted recipients
C33_StoredSentToNeverShrinks ==
    [][\A k \in DOMAIN kv.queue \cap DOMAIN kv'.queue :
          Len(kv'.queue[k].sentTo) >= Len(kv.queue[k].sentTo)]_vars

\* C34: once finalizeQueue has written both sent records of a post, the
\* store holds no queue record for it, also when an invocation that read
\* the queue earlier writes afterwards
C34_NoQueueBesideSentRecords ==
    \A k \in DOMAIN kv.queue : ~BothRecords(kv, kv.queue[k])

\* C35: after a processQueueBatch call that handed a batch to the provider
\* and left the queue in the store, the stored nextSendAt lies ahead of the
\* call, so that an invocation arriving at once sends nothing for the queue
C35_EverySendSetsTheWait ==
    \A k \in DOMAIN lastRun.outs :
        (lastRun.outs[k].handed /\ k \in DOMAIN kv.queue) =>
            /\ kv.queue[k].nextSendAt > 0
            /\ ~processQueueBatch(kv, config.EMAIL_PROVIDER, k, kv.queue[k],
                                  <<"ok">>, FinalizeOps).handed

\* C36: in every queue record stored with a stats field, stats.sent is the
\* length of sentTo, stats.failed the length of failedRecipients and
\* stats.remaining the length of subscribers less the length of sentTo
C36_StatsMatchTheLists ==
    \A k \in DOMAIN kv.queue :
        kv.queue[k].stats.present =>
            /\ kv.queue[k].stats.sent = Len(kv.queue[k].sentTo)
            /\ kv.queue[k].stats.failed = Len(kv.queue[k].failedRecipients)
            /\ kv.queue[k].stats.remaining =
                   Len(kv.queue[k].subscribers) - Len(kv.queue[k].sentTo)

\* C37: failedRecipients of a stored queue holds only addresses of the
\* subscribers snapshot and holds each of them at most once, so it is never
\* longer than subscribers
C37_FailedRecipientsAreDistinctSubscribers ==
    \A k \in DOMAIN kv.queue :
        /\ Range(kv.queue[k].failedRecipients) \subseteq Range(kv.queue[k].subscribers)
        /\ \A i, j \in 1..Len(kv.queue[k].failedRecipients) :
              kv.queue[k].failedRecipients[i] = kv.queue[k].failedRecipients[j] => i = j
        /\ Len(kv.queue[k].failedRecipients) <= Len(kv.queue[k].subscribers)

\* every subscriber of a stored queue has been given up
C37_EveryBatchGivenUp ==
    \E k \in DOMAIN kv.queue :
        /\ Len(kv.queue[k].subscribers) > BATCH_SIZE
        /\ kv.queue[k].failedRecipients = kv.queue[k].subscribers
        /\ k \in DOMAIN lastRun.outs /\ lastRun.outs[k].handed

\* C38: in every queue record written to the store batchRetryCount is
\* absent or one of 0, 1, 2, and it is 0 in every record written by a call
\* whose send succeeded
C38_RetryCountInRange ==
    /\ \A k \in DOMAIN kv.queue :
          kv.queue[k].batchRetryCount \in
              {Undefined} \cup {Num(n) : n \in 0..(MaxBatchRetries - 1)}
    /\ \A k \in DOMAIN lastRun.outs :
          (lastRun.outs[k].wrote /\ lastRun.outs[k].result.success) =>
              /\ k \in DOMAIN kv.queue
              /\ kv.queue[k] = lastRun.outs[k].queue
              /\ kv.queue[k].batchRetryCount = Num(0)

\* a send succeeded for a batch that had failed twice, and the queue was
\* written back
C38_SuccessAfterTwoFailures ==
    \E k \in DOMAIN lastRun.outs :
        /\ lastRun.pre[k].batchRetryCount = Num(MaxBatchRetries - 1)
        /\ lastRun.outs[k].wrote /\ lastRun.outs[k].result.success
        /\ k \in DOMAIN kv.queue

====
